---- MODULE Spec2Model ----
\* Verification model of the donation/payment platform:
\*   - SubscriptionsService (in-memory subscription store, billing, schedule)
\*   - PaymentsService.charge (risk scoring, velocity, ledger)
\* Time on the subscription side is counted in whole days since 2024-01-01
\* (the code's Date arithmetic is calendar arithmetic on the date part);
\* time on the payments side is counted in milliseconds since process start.
EXTENDS Integers, Sequences, FiniteSets, TLC

VARIABLES
    now,            \* subscription side: current instant, new Date(), in days
    heap,           \* the Subscription objects ever constructed (index = reference)
    subscriptions,  \* SubscriptionsService.subscriptions: Map in insertion order, <<[key, ref]>>
    pendingCreates, \* createSubscription calls suspended at `await analyzeCampaign`
    donationTransactions, \* SubscriptionsService.transactions, in push order
    billingInterval, \* BillingSchedulerService.billingInterval: "unset" before
                    \* onModuleInit, "armed" while the timer is set, "null" once cleared
    ticks,          \* runs of processDueSubscriptions suspended at an await
    result,         \* how the handler step just performed ended: "ok", or the
                    \* message of the exception it raised
    fraudConfig,    \* PaymentsService.fraudConfig, loaded by the constructor
    nodeEnv,        \* process.env.NODE_ENV
    payNow,         \* payments side: current instant, in ms since process start
    transactions,   \* PaymentsService.transactions: the ledger, in push order
    llmCache,       \* PaymentsService.llmCache: set of [key, text]
    charges,        \* charge calls suspended at `await getLLMExplanation`
    scored,         \* the local variables of the charge call that ran last
    explained,      \* for each ledger entry, its cache key and whether the
                    \* text-generation service was called for it
    campaignCache,  \* LLMService.llmCache: set of [key, analysis]
    analyses,       \* analyzeCampaign calls suspended at `await axios.post`
    analysed        \* the analyzeCampaign calls that returned, in return order

storeVars == <<heap, subscriptions, pendingCreates>>

billingVars == <<donationTransactions, billingInterval, ticks>>

payVars == <<fraudConfig, nodeEnv, payNow, transactions, llmCache, charges, scored,
             explained>>

campaignVars == <<campaignCache, analyses, analysed>>

subVars == <<now, heap, subscriptions, pendingCreates,
             donationTransactions, billingInterval, ticks, result>>

vars == <<now, heap, subscriptions, pendingCreates,
          donationTransactions, billingInterval, ticks, result,
          fraudConfig, nodeEnv, payNow, transactions, llmCache, charges, scored,
          explained, campaignCache, analyses, analysed>>

----------------------------------------------------------------------------
\* Bounds of the model

MaxCreates == 3         \* createSubscription calls that get past the duplicate check
MaxNow == 38            \* last day modelled (2024-02-08)
MaxCalendarDay == 430   \* last day of the long runs (2025-03-06)
MaxBillings == 2        \* billing attempts per subscription in the long runs
MaxTicks == 1           \* runs of processDueSubscriptions in flight at once
MaxTransactions == 6    \* donation transactions recorded in one run
MaxAnalyses == 2        \* analyzeCampaign calls made
MaxLedger == 3          \* charges appended to the ledger or in flight

----------------------------------------------------------------------------
\* Calendar arithmetic of the host's Date (proleptic Gregorian, day granularity)

EpochYear == 2024

IsLeap(y) == (y % 4 = 0 /\ y % 100 # 0) \/ y % 400 = 0

DaysInYear(y) == IF IsLeap(y) THEN 366 ELSE 365

DaysInMonth(y, m) ==
    IF m = 1 THEN (IF IsLeap(y) THEN 29 ELSE 28)
    ELSE IF m \in {3, 5, 8, 10} THEN 30 ELSE 31

RECURSIVE YearStart(_)
YearStart(y) == IF y <= EpochYear THEN 0 ELSE YearStart(y - 1) + DaysInYear(y - 1)

RECURSIVE MonthStart(_, _)
MonthStart(y, m) == IF m = 0 THEN 0 ELSE MonthStart(y, m - 1) + DaysInMonth(y, m - 1)

\* MakeDay(year, month, date): month 0..11 or 12 (carried into the next year),
\* date may exceed the month's length and then runs over into the next month
MakeDay(y, m, d) ==
    LET yy == y + (m \div 12)
        mm == m % 12
    IN  YearStart(yy) + MonthStart(yy, mm) + d - 1

RECURSIVE YearFrom(_, _)
YearFrom(t, y) == IF t < YearStart(y + 1) THEN y ELSE YearFrom(t, y + 1)

getFullYear(t) == YearFrom(t, EpochYear)

RECURSIVE MonthFrom(_, _, _)
MonthFrom(t, y, m) ==
    IF t < YearStart(y) + MonthStart(y, m + 1) THEN m ELSE MonthFrom(t, y, m + 1)

getMonth(t) == MonthFrom(t, getFullYear(t), 0)

getDate(t) == t - MakeDay(getFullYear(t), getMonth(t), 1) + 1

Intervals == {"weekly", "monthly", "yearly"}

\* calculateNextBillingDate: the thrown Error for an unknown interval is
\* reported by IntervalValid being false
IntervalValid(interval) == interval \in Intervals

calculateNextBillingDate(fromDate, interval) ==
    LET y == getFullYear(fromDate)
        m == getMonth(fromDate)
        d == getDate(fromDate)
    IN  CASE interval = "weekly"  -> MakeDay(y, m, d + 7)
          [] interval = "monthly" -> MakeDay(y, m + 1, d)
          [] interval = "yearly"  -> MakeDay(y + 1, m, d)

----------------------------------------------------------------------------
\* Inputs

Donors == {"d1", "d2"}

\* what analyzeCampaign resolves with for a description (its keyword analysis)
analyzeCampaign(campaignDescription) ==
    IF campaignDescription = "Emergency food and clean water"
    THEN [tags |-> <<"emergency relief", "food security", "clean water">>,
          summary |-> "This campaign provides emergency relief, food security, clean water to communities in need."]
    ELSE [tags |-> <<"humanitarian aid", "community support">>,
          summary |-> "This campaign provides humanitarian aid, community support to communities in need."]

Dto(d, a, i, c) ==
    [donorId |-> d, amount |-> a, currency |-> "USD", source |-> "tok_test",
     email |-> "donor@example.com", interval |-> i, campaignDescription |-> c]

\* the creation requests the clients send; "daily" is an interval the
\* service does not know
CreateSubscriptionDtos == {
    Dto("d1", 1500, "weekly", "Test campaign"),
    Dto("d1", 2500, "monthly", "Emergency food and clean water"),
    Dto("d2", 1500, "yearly", "Test campaign"),
    Dto("d2", 2500, "daily", "Test campaign") }

\* the same requests, and one whose body also carries a lastBilledAt field
\* (the body is validated without a whitelist, so the field stays in)
CalendarDtos ==
    CreateSubscriptionDtos
        \cup { Dto("d1", 1500, "weekly", "Test campaign") @@ [lastBilledAt |-> <<0>>] }

\* 2024-01-31: a month end, so that month arithmetic runs over
StartDays == {30}

\* 2024-01-31, 2024-02-29 and 2024-12-31: the ends of a long month, of the
\* leap February and of the leap year
CalendarDays == {30, 59, 365}

----------------------------------------------------------------------------
\* The subscription store

Keys == { subscriptions[i].key : i \in 1..Len(subscriptions) }

has(donorId) == donorId \in Keys

IndexOf(donorId) == CHOOSE i \in 1..Len(subscriptions) : subscriptions[i].key = donorId

RefOf(donorId) == subscriptions[IndexOf(donorId)].ref

\* Map.get(donorId): the stored object (only where has(donorId))
get(donorId) == heap[RefOf(donorId)]

\* Map.set: an existing key keeps its position and gets the new value
MapSet(map, donorId, ref) ==
    IF \E i \in 1..Len(map) : map[i].key = donorId
    THEN [i \in 1..Len(map) |->
            IF map[i].key = donorId THEN [key |-> donorId, ref |-> ref] ELSE map[i]]
    ELSE Append(map, [key |-> donorId, ref |-> ref])

\* Array.from(this.subscriptions.values()): the stored objects, by reference
Values == [i \in 1..Len(subscriptions) |-> subscriptions[i].ref]

Range(s) == { s[i] : i \in 1..Len(s) }

RemoveAt(s, i) == SubSeq(s, 1, i - 1) \o SubSeq(s, i + 1, Len(s))

----------------------------------------------------------------------------
\* createSubscription, first part: up to `await this.llmService.analyzeCampaign`

CreateThrowsExists_Never(dto) == FALSE

\* `if (this.subscriptions.has(donorId)) throw new BadRequestException(...)`
CreateThrowsExists(dto) == has(dto.donorId)

createSubscription(dto) ==
    /\ IF CreateThrowsExists(dto)
       THEN /\ result' = "Subscription already exists"
            /\ UNCHANGED pendingCreates
       ELSE /\ Len(heap) + Len(pendingCreates) < MaxCreates
            /\ pendingCreates' = Append(pendingCreates, dto)
            /\ result' = "ok"
    /\ UNCHANGED <<now, heap, subscriptions, billingVars, payVars, campaignVars>>

\* Object.assign(subscription, {...createSubscriptionDto, ...}): every field
\* of the request body is copied, and the fields listed after the spread are
\* then set; lastBilledAt is not among them
NewSubscription(dto, llmAnalysis, t) ==
    [donorId |-> dto.donorId, amount |-> dto.amount, currency |-> dto.currency,
     source |-> dto.source, email |-> dto.email, interval |-> dto.interval,
     campaignDescription |-> dto.campaignDescription,
     tags |-> llmAnalysis.tags, summary |-> llmAnalysis.summary,
     status |-> "active",
     createdAt |-> t,
     lastBilledAt |-> IF "lastBilledAt" \in DOMAIN dto THEN dto.lastBilledAt ELSE <<>>,
     nextBillingAt |-> calculateNextBillingDate(t, dto.interval),
     successfulCharges |-> 0, failedCharges |-> 0]

\* createSubscription, second part: the analysis has resolved
createSubscriptionResume(i) ==
    LET dto == pendingCreates[i]
        llmAnalysis == analyzeCampaign(dto.campaignDescription)
    IN
    /\ pendingCreates' = RemoveAt(pendingCreates, i)
    /\ IF ~IntervalValid(dto.interval)
       THEN /\ result' = "Invalid interval"
            /\ UNCHANGED <<heap, subscriptions>>
       ELSE /\ heap' = Append(heap, NewSubscription(dto, llmAnalysis, now))
            /\ subscriptions' = MapSet(subscriptions, dto.donorId, Len(heap) + 1)
            /\ result' = "ok"
    /\ UNCHANGED <<now, billingVars, payVars, campaignVars>>

----------------------------------------------------------------------------
\* cancelSubscription

\* subscription.status = 'cancelled', on the stored object
MarkCancelled_ResetsCounters(h, ref) ==
    [h EXCEPT ![ref].status = "cancelled", ![ref].successfulCharges = 0,
              ![ref].failedCharges = 0]

MarkCancelled(h, ref) == [h EXCEPT ![ref].status = "cancelled"]

cancelSubscription(donorId) ==
    /\ IF ~has(donorId)
       THEN /\ result' = "Subscription not found"
            /\ UNCHANGED heap
       ELSE IF get(donorId).status = "cancelled"
       THEN /\ result' = "Subscription already cancelled"
            /\ UNCHANGED heap
       ELSE /\ heap' = MarkCancelled(heap, RefOf(donorId))
            /\ result' = "ok"
    /\ UNCHANGED <<now, subscriptions, pendingCreates, billingVars, payVars, campaignVars>>

----------------------------------------------------------------------------
\* getSubscriptionsDueForBilling

IsDue_IgnoresStatus(sub, t) == sub.nextBillingAt <= t

IsDue_StrictlyBefore(sub, t) == sub.status = "active" /\ sub.nextBillingAt < t

\* the filter predicate: active, and new Date(sub.nextBillingAt) <= now
IsDue(sub, t) == sub.status = "active" /\ sub.nextBillingAt <= t

\* the due subscriptions, as references to the stored objects
getSubscriptionsDueForBilling_All == Values

getSubscriptionsDueForBilling ==
    LET Due(ref) == IsDue(heap[ref], now) IN SelectSeq(Values, Due)

----------------------------------------------------------------------------
\* SubscriptionsController.getSubscription and the responses of the API

\* the handler of GET /subscriptions/:donorId: the stored record, or a plain
\* Error thrown by the controller when the service returns null
getSubscription(donorId) ==
    /\ result' = IF has(donorId) THEN "ok" ELSE "Error: Subscription not found"
    /\ UNCHANGED <<now, storeVars, billingVars, payVars, campaignVars>>

\* the exception behind each result of a handler: its class and its message
Thrown(res) ==
    CASE res = "Subscription already exists" ->
            [class |-> "BadRequestException", message |-> res]
      [] res = "Subscription not found" ->
            [class |-> "NotFoundException", message |-> res]
      [] res = "Subscription already cancelled" ->
            [class |-> "BadRequestException", message |-> res]
      [] res = "Error: Subscription not found" ->
            [class |-> "Error", message |-> "Subscription not found"]
      [] res = "Invalid interval" ->
            [class |-> "Error", message |-> res]

StatusOf(class) ==
    CASE class = "BadRequestException" -> 400
      [] class = "NotFoundException" -> 404

\* what the caller receives for an exception: no exception filter is
\* installed, so the framework's default one answers; it passes on the status
\* and message of an HttpException and answers anything else with 500
\* 'Internal server error'
Reported(res) ==
    IF Thrown(res).class \in {"BadRequestException", "NotFoundException"}
    THEN [statusCode |-> StatusOf(Thrown(res).class), message |-> Thrown(res).message]
    ELSE [statusCode |-> 500, message |-> "Internal server error"]

----------------------------------------------------------------------------
\* getDonationHistory

\* inserts tx into a list sorted by the comparator (a, b) => b.timestamp -
\* a.timestamp, after the entries it does not have to precede (the sort is
\* stable)
RECURSIVE InsertByTimestampDesc(_, _)
InsertByTimestampDesc(sorted, tx) ==
    IF sorted = <<>> THEN <<tx>>
    ELSE IF Head(sorted).timestamp >= tx.timestamp
    THEN <<Head(sorted)>> \o InsertByTimestampDesc(Tail(sorted), tx)
    ELSE <<tx>> \o sorted

\* [...txs].sort((a, b) => new Date(b.timestamp) - new Date(a.timestamp))
RECURSIVE sortByTimestampDesc(_)
sortByTimestampDesc(txs) ==
    IF txs = <<>> THEN <<>>
    ELSE InsertByTimestampDesc(sortByTimestampDesc(SubSeq(txs, 1, Len(txs) - 1)),
                               txs[Len(txs)])

getDonationHistory == sortByTimestampDesc(donationTransactions)

----------------------------------------------------------------------------
\* getStatistics. Strings are sequences of characters.

Digits == <<"0", "1", "2", "3", "4", "5", "6", "7", "8", "9">>

\* the decimal digits of a natural number
RECURSIVE NumberToString(_)
NumberToString(n) ==
    IF n < 10 THEN <<Digits[n + 1]>>
    ELSE NumberToString(n \div 10) \o <<Digits[(n % 10) + 1]>>

\* (successful / total * 100), rounded to the nearest hundredth
RateHundredths(successful, total) == (20000 * successful + total) \div (2 * total)

toFixed_NoDecimals(hundredths) == NumberToString((hundredths + 50) \div 100)

\* Number.prototype.toFixed(2) of a value given in hundredths
toFixed(hundredths) ==
    NumberToString(hundredths \div 100)
        \o <<".", Digits[((hundredths % 100) \div 10) + 1], Digits[(hundredths % 10) + 1]>>

\* Array.prototype.reduce((sum, sub) => sum + f(sub), 0) over stored objects
RECURSIVE reduce(_, _)
reduce(refs, field) ==
    IF refs = <<>> THEN 0
    ELSE heap[Head(refs)][field] + reduce(Tail(refs), field)

getStatistics ==
    LET allSubscriptions == Values
        IsActive(ref) == heap[ref].status = "active"
        activeSubscriptions == SelectSeq(allSubscriptions, IsActive)
        totalAmount == reduce(activeSubscriptions, "amount")
        totalSuccessfulCharges == reduce(allSubscriptions, "successfulCharges")
        totalFailedCharges == reduce(allSubscriptions, "failedCharges")
    IN
    [totalSubscriptions |-> Len(allSubscriptions),
     activeSubscriptions |-> Len(activeSubscriptions),
     cancelledSubscriptions |-> Len(allSubscriptions) - Len(activeSubscriptions),
     totalMonthlyAmount |-> totalAmount,
     totalSuccessfulCharges |-> totalSuccessfulCharges,
     totalFailedCharges |-> totalFailedCharges,
     successRate |->
        IF totalSuccessfulCharges + totalFailedCharges > 0
        THEN toFixed(RateHundredths(totalSuccessfulCharges,
                                    totalSuccessfulCharges + totalFailedCharges))
                 \o <<"%">>
        ELSE <<"0", "%">>]

----------------------------------------------------------------------------
\* processBilling: runs without suspending, on the object it was handed

Providers == {"stripe", "paypal"}

\* what one billing attempt may draw: the two Math.random() draws (success
\* or not, and the provider), an exception inside the try block, before the
\* transaction is stored, or a rejection of the whole processBilling call
BillingChoices == {
    [outcome |-> "success", provider |-> "stripe"],
    [outcome |-> "failed", provider |-> "paypal"],
    [outcome |-> "fault", provider |-> "unknown"],
    [outcome |-> "reject", provider |-> "unknown"] }

DonationTransaction(sub, choice, t) ==
    [donorId |-> sub.donorId, amount |-> sub.amount, currency |-> sub.currency,
     status |-> IF choice.outcome = "success" THEN "success" ELSE "failed",
     provider |-> choice.provider,
     errorMessage |-> CASE choice.outcome = "success" -> "undefined"
                        [] choice.outcome = "failed" -> "Payment processing failed"
                        [] choice.outcome = "fault" -> "Internal processing error",
     timestamp |-> t,
     campaignDescription |-> sub.campaignDescription,
     tags |-> sub.tags, summary |-> sub.summary]

\* the heap after processBilling(ref); a call that rejects has changed nothing
BilledHeap(h, ref, choice) ==
    CASE choice.outcome = "success" -> [h EXCEPT ![ref].successfulCharges = @ + 1]
      [] choice.outcome = "reject" -> h
      [] OTHER -> [h EXCEPT ![ref].failedCharges = @ + 1]

\* this.transactions after processBilling(ref)
BilledTransactions(txs, sub, choice, t) ==
    IF choice.outcome = "reject" THEN txs
    ELSE Append(txs, DonationTransaction(sub, choice, t))

\* batch.map(subscription => this.processSubscriptionBilling(subscription)):
\* each member runs processBilling in turn, up to its await
RECURSIVE processBatch(_, _, _, _, _)
processBatch(h, txs, batch, choice, t) ==
    IF batch = <<>> THEN [heap |-> h, transactions |-> txs]
    ELSE LET ref == Head(batch) IN
         processBatch(BilledHeap(h, ref, choice[ref]),
                      BilledTransactions(txs, h[ref], choice[ref], t),
                      Tail(batch), choice, t)

concurrencyLimit == 5

Min(a, b) == IF a < b THEN a ELSE b

BatchAt_Whole(due, pos) == SubSeq(due, pos, Len(due))

\* chunkArray: the batch that starts at position pos of the due list
BatchAt(due, pos) == SubSeq(due, pos, Min(pos + concurrencyLimit - 1, Len(due)))

\* starts the batch at pos of tick record tk, giving the record to suspend with
StartBatch(tk, pos, rest) ==
    LET batch == BatchAt(tk.due, pos) IN
    /\ Len(donationTransactions) + Len(batch) <= MaxTransactions
    /\ \E choice \in [Range(batch) -> BillingChoices] :
         LET r == processBatch(heap, donationTransactions, batch, choice, now) IN
         /\ heap' = r.heap
         /\ donationTransactions' = r.transactions
         /\ ticks' = rest \o <<[due |-> tk.due, at |-> tk.at, pos |-> pos,
                                 awaiting |-> Range(batch), failed |-> {},
                                 rejected |-> { ref \in Range(batch) :
                                                  choice[ref].outcome = "reject" }]>>

\* processDueSubscriptions, up to its first await, while fewer than maxRuns
\* earlier runs are suspended
StartRun(maxRuns) ==
    LET dueSubscriptions == getSubscriptionsDueForBilling IN
    IF Len(dueSubscriptions) = 0
    THEN UNCHANGED <<heap, donationTransactions, ticks>>
    ELSE /\ Len(ticks) < maxRuns
         /\ StartBatch([due |-> dueSubscriptions, at |-> now], 1, ticks)

processDueSubscriptions == StartRun(MaxTicks)

\* updateBillingSchedule
updateBillingSchedule(h, ref, t) ==
    [h EXCEPT ![ref].lastBilledAt = <<t>>,
              ![ref].nextBillingAt = calculateNextBillingDate(t, h[ref].interval)]

MarkFailed(h, ref) == [h EXCEPT ![ref].failedCharges = @ + 1]

processSubscriptionBillingCatch_NoUpdate(h, ref, t) == MarkFailed(h, ref)

\* the catch block of processSubscriptionBilling
processSubscriptionBillingCatch(h, ref, t) ==
    updateBillingSchedule(MarkFailed(h, ref), ref, t)

processSubscriptionBillingRejects_OnFault(h, tk, ref) == ref \in tk.rejected

\* processSubscriptionBilling itself rejects only when its catch block throws:
\* updateBillingSchedule throws there for an interval it does not know,
\* after failedCharges has been incremented
processSubscriptionBillingRejects(h, tk, ref) == ~IntervalValid(h[ref].interval)

\* processSubscriptionBilling resumes after `await processBilling` for one
\* member of the current batch of tick k: in the try block, or in the catch
\* block when processBilling has rejected
processSubscriptionBillingResume(k, ref) ==
    /\ ref \in ticks[k].awaiting
    /\ heap' = IF processSubscriptionBillingRejects(heap, ticks[k], ref)
               THEN MarkFailed(heap, ref)
               ELSE IF ref \in ticks[k].rejected
                    THEN processSubscriptionBillingCatch(heap, ref, now)
                    ELSE updateBillingSchedule(heap, ref, now)
    /\ ticks' = [ticks EXCEPT
                   ![k].awaiting = @ \ {ref},
                   ![k].failed = IF processSubscriptionBillingRejects(heap, ticks[k], ref)
                                 THEN @ \cup {ref} ELSE @]
    /\ result' = "ok"
    /\ UNCHANGED <<now, subscriptions, pendingCreates,
                   donationTransactions, billingInterval, payVars, campaignVars>>

\* processDueSubscriptions resumes after `await Promise.all` of a batch: the
\* next batch starts, or the run ends: after the last batch, or in the catch
\* block when a member of the batch has rejected
processDueSubscriptionsResume(k) ==
    LET tk == ticks[k]
        next == tk.pos + concurrencyLimit
    IN
    /\ tk.awaiting = {}
    /\ IF next > Len(tk.due) \/ tk.failed # {}
       THEN /\ ticks' = RemoveAt(ticks, k)
            /\ UNCHANGED <<heap, donationTransactions>>
       ELSE StartBatch(tk, next, RemoveAt(ticks, k))
    /\ result' = "ok"
    /\ UNCHANGED <<now, subscriptions, pendingCreates, billingInterval, payVars, campaignVars>>

----------------------------------------------------------------------------
\* BillingSchedulerService: the timer and its entry points

\* what a due-check logs: the debug line of the early return, or its progress
DueCheckLog ==
    IF Len(getSubscriptionsDueForBilling) = 0
    THEN "No subscriptions due for billing" ELSE "ok"

BILLING_INTERVAL_MS == 60000

\* getSchedulerStatus; nextRun is the present moment plus the interval, or null
getSchedulerStatus ==
    [isRunning |-> billingInterval \notin {"unset", "null"},
     intervalMs |-> BILLING_INTERVAL_MS,
     nextRun |-> IF billingInterval \notin {"unset", "null"}
                 THEN <<[day |-> now, plusMs |-> BILLING_INTERVAL_MS]>>
                 ELSE <<>>]

onModuleInit_NoImmediateCheck ==
    /\ billingInterval = "unset"
    /\ billingInterval' = "armed"
    /\ result' = "ok"
    /\ UNCHANGED <<now, storeVars, donationTransactions, ticks, payVars, campaignVars>>

\* onModuleInit -> startBillingScheduler: arms the timer and runs one due-check
onModuleInit ==
    /\ billingInterval = "unset"
    /\ billingInterval' = "armed"
    /\ processDueSubscriptions
    /\ result' = DueCheckLog
    /\ UNCHANGED <<now, subscriptions, pendingCreates, payVars, campaignVars>>

TimerTick_OneShot ==
    /\ billingInterval = "armed"
    /\ processDueSubscriptions
    /\ result' = DueCheckLog
    /\ billingInterval' = "null"
    /\ UNCHANGED <<now, subscriptions, pendingCreates, payVars, campaignVars>>

\* the setInterval callback
TimerTick ==
    /\ billingInterval = "armed"
    /\ processDueSubscriptions
    /\ result' = DueCheckLog
    /\ UNCHANGED <<now, subscriptions, pendingCreates, billingInterval, payVars, campaignVars>>

triggerBillingProcessing_LogsOnly ==
    /\ result' = DueCheckLog
    /\ UNCHANGED <<now, storeVars, billingVars, payVars, campaignVars>>

\* triggerBillingProcessing: logs and awaits processDueSubscriptions
triggerBillingProcessing ==
    /\ processDueSubscriptions
    /\ result' = DueCheckLog
    /\ UNCHANGED <<now, subscriptions, pendingCreates, billingInterval, payVars, campaignVars>>

\* triggerBillingProcessing, called while an earlier run is suspended
triggerBillingProcessingDuringRun ==
    /\ Len(ticks) = 1
    /\ StartRun(Len(ticks) + 1)
    /\ result' = DueCheckLog
    /\ UNCHANGED <<now, subscriptions, pendingCreates, billingInterval, payVars, campaignVars>>

onModuleDestroy_ClearOnly ==
    /\ UNCHANGED billingInterval
    /\ result' = "ok"
    /\ UNCHANGED <<now, storeVars, donationTransactions, ticks, payVars, campaignVars>>

onModuleDestroy_CancelsTicks ==
    /\ billingInterval' = IF billingInterval = "armed" THEN "null" ELSE billingInterval
    /\ ticks' = <<>>
    /\ result' = "ok"
    /\ UNCHANGED <<now, storeVars, donationTransactions, payVars, campaignVars>>

\* onModuleDestroy -> stopBillingScheduler: clears an armed timer and sets the
\* field to null; does nothing when the field is null
onModuleDestroy ==
    /\ billingInterval' = IF billingInterval = "armed" THEN "null" ELSE billingInterval
    /\ result' = "ok"
    /\ UNCHANGED <<now, storeVars, donationTransactions, ticks, payVars, campaignVars>>

----------------------------------------------------------------------------
\* Passage of time: the clock moves to (the day before) a subscription's
\* next billing day

ClockTargets ==
    { heap[r].nextBillingAt : r \in 1..Len(heap) }
        \cup { heap[r].nextBillingAt - 1 : r \in 1..Len(heap) }

ClockStep(t, last) ==
    /\ t > now /\ t <= last
    /\ now' = t
    /\ result' = "ok"
    /\ UNCHANGED <<heap, subscriptions, pendingCreates, billingVars, payVars, campaignVars>>

AdvanceClock(t) == ClockStep(t, MaxNow)

\* the same over more than a year
AdvanceCalendar(t) == ClockStep(t, MaxCalendarDay)

----------------------------------------------------------------------------
\* PaymentsService: strings
\* Risk scores are counted in thousandths, amounts in cents, time in ms.

\* the characters of the strings the model uses
Chars(str) ==
    CASE str = "a@b.com"    -> <<"a", "@", "b", ".", "c", "o", "m">>
      [] str = "a@test.com" -> <<"a", "@", "t", "e", "s", "t", ".", "c", "o", "m">>
      [] str = "a@TEST.COM" -> <<"a", "@", "T", "E", "S", "T", ".", "C", "O", "M">>
      [] str = "a@sub.test.com" ->
            <<"a", "@", "s", "u", "b", ".", "t", "e", "s", "t", ".", "c", "o", "m">>
      [] str = "a@mytest.com" ->
            <<"a", "@", "m", "y", "t", "e", "s", "t", ".", "c", "o", "m">>
      [] str = "a@mail.ru"  -> <<"a", "@", "m", "a", "i", "l", ".", "r", "u">>
      [] str = "test.com"   -> <<"t", "e", "s", "t", ".", "c", "o", "m">>
      [] str = ".ru"        -> <<".", "r", "u">>

UpperCase == <<"C", "E", "M", "O", "S", "T", "F", "W", "A", "R">>

LowerCase == <<"c", "e", "m", "o", "s", "t", "f", "w", "a", "r">>

charToLowerCase(c) ==
    IF \E i \in 1..Len(UpperCase) : UpperCase[i] = c
    THEN LowerCase[CHOOSE i \in 1..Len(UpperCase) : UpperCase[i] = c]
    ELSE c

toLowerCase(chars) == [i \in 1..Len(chars) |-> charToLowerCase(chars[i])]

\* str.split(sep): the pieces between the separators
RECURSIVE split(_, _)
split(chars, sep) ==
    IF \A i \in 1..Len(chars) : chars[i] # sep THEN <<chars>>
    ELSE LET i == CHOOSE k \in 1..Len(chars) :
                    chars[k] = sep /\ \A j \in 1..(k - 1) : chars[j] # sep
         IN  <<SubSeq(chars, 1, i - 1)>> \o split(SubSeq(chars, i + 1, Len(chars)), sep)

startsWith(chars, prefix) ==
    Len(prefix) <= Len(chars) /\ SubSeq(chars, 1, Len(prefix)) = prefix

endsWith(chars, suffix) ==
    /\ Len(suffix) <= Len(chars)
    /\ SubSeq(chars, Len(chars) - Len(suffix) + 1, Len(chars)) = suffix

\* chargeDto.email.split('@')[1]?.toLowerCase() || ''
emailDomain(email) ==
    LET parts == split(Chars(email), "@") IN
    IF Len(parts) >= 2 THEN toLowerCase(parts[2]) ELSE <<>>

isSuspiciousDomain_NoBoundary(email, suspiciousDomains) ==
    \E k \in 1..Len(suspiciousDomains) :
        endsWith(emailDomain(email), toLowerCase(Chars(suspiciousDomains[k])))

isSuspiciousDomain(email, suspiciousDomains) ==
    \E k \in 1..Len(suspiciousDomains) :
        LET domainLower == toLowerCase(Chars(suspiciousDomains[k])) IN
        IF startsWith(domainLower, <<".">>)
        THEN endsWith(emailDomain(email), domainLower)
        ELSE \/ emailDomain(email) = domainLower
             \/ endsWith(emailDomain(email), <<".">> \o domainLower)

----------------------------------------------------------------------------
\* PaymentsService: configuration and inputs

\* the contents of the fraud configuration file the constructor loads: the
\* threshold and increments the unit tests assume, with a velocity threshold
\* of two charges
FraudConfigs == {
    [amountThreshold |-> 100000, amountRisk |-> 500,
     suspiciousDomains |-> <<"test.com", ".ru">>, domainRisk |-> 400,
     velocityThreshold |-> 2, velocityRisk |-> 400, geoMismatchRisk |-> 400] }

riskBlockThreshold == 500

BaseRisk == 100

RussianIpRisk == 400

HourMs == 60 * 60 * 1000

ChargeDto(amount, email, ipCountry, billingCountry) ==
    [amount |-> amount, currency |-> "USD", source |-> "tok", email |-> email,
     ipCountry |-> ipCountry, billingCountry |-> billingCountry]

\* the charge requests the clients send
ChargeDtos == {
    ChargeDto(100000, "a@b.com", "US", "US"),
    ChargeDto(100001, "a@b.com", "US", "US"),
    ChargeDto(10000, "a@b.com", "RU", "RU"),
    ChargeDto(200000, "a@test.com", "RU", "US") }

\* requests that differ in the email address alone
DomainEmails == {"a@b.com", "a@test.com", "a@TEST.COM", "a@sub.test.com",
                 "a@mytest.com", "a@mail.ru"}

DomainChargeDtos == { ChargeDto(10000, email, "US", "US") : email \in DomainEmails }

\* Math.random() < 0.5 ? 'stripe' : 'paypal'
PaymentProviders == {"stripe", "paypal"}

\* how the POST to the text-generation service ends: with a sentence, with
\* an error, or with a body that has no response text in it
HttpOutcomes == {"response", "error", "malformed"}

----------------------------------------------------------------------------
\* LLMService: campaign analysis. Strings are sequences of characters.

IsSpace(c) == c \in {" ", "\t", "\n"}

\* the rest of the string after its leading whitespace
RECURSIVE trimStart(_)
trimStart(chars) ==
    IF chars # <<>> /\ IsSpace(Head(chars)) THEN trimStart(Tail(chars)) ELSE chars

RECURSIVE trimEnd(_)
trimEnd(chars) ==
    IF chars # <<>> /\ IsSpace(chars[Len(chars)])
    THEN trimEnd(SubSeq(chars, 1, Len(chars) - 1)) ELSE chars

trim(chars) == trimEnd(trimStart(chars))

\* replace(/\s+/g, ' '): every run of whitespace becomes one space
RECURSIVE replaceWhitespace(_)
replaceWhitespace(chars) ==
    IF chars = <<>> THEN <<>>
    ELSE IF IsSpace(Head(chars))
    THEN <<" ">> \o replaceWhitespace(trimStart(chars))
    ELSE <<Head(chars)>> \o replaceWhitespace(Tail(chars))

getCacheKey(campaignDescription) ==
    trim(replaceWhitespace(toLowerCase(campaignDescription)))

includes(chars, sub) ==
    \E i \in 1..(Len(chars) - Len(sub) + 1) : SubSeq(chars, i, i + Len(sub) - 1) = sub

\* Array.prototype.slice(start, end)
slice(s, start, end) == SubSeq(s, start + 1, Min(end, Len(s)))

RECURSIVE join(_, _)
join(strs, sep) ==
    IF strs = <<>> THEN <<>>
    ELSE IF Len(strs) = 1 THEN strs[1]
    ELSE strs[1] \o sep \o join(Tail(strs), sep)

\* the keyword tests of generateMockAnalysis, in the order of the code
KeywordRules == <<
    [words |-> {<<"e", "m", "e", "r", "g", "e", "n", "c", "y">>, <<"d", "i", "s", "a", "s", "t", "e", "r">>},
     tag |-> <<"e", "m", "e", "r", "g", "e", "n", "c", "y", " ", "r", "e", "l", "i", "e", "f">>],
    [words |-> {<<"f", "o", "o", "d">>, <<"h", "u", "n", "g", "e", "r">>},
     tag |-> <<"f", "o", "o", "d", " ", "s", "e", "c", "u", "r", "i", "t", "y">>],
    [words |-> {<<"w", "a", "t", "e", "r">>, <<"c", "l", "e", "a", "n">>},
     tag |-> <<"c", "l", "e", "a", "n", " ", "w", "a", "t", "e", "r">>],
    [words |-> {<<"e", "d", "u", "c", "a", "t", "i", "o", "n">>, <<"s", "c", "h", "o", "o", "l">>},
     tag |-> <<"e", "d", "u", "c", "a", "t", "i", "o", "n">>],
    [words |-> {<<"h", "e", "a", "l", "t", "h">>, <<"m", "e", "d", "i", "c", "a", "l">>},
     tag |-> <<"h", "e", "a", "l", "t", "h", "c", "a", "r", "e">>],
    [words |-> {<<"n", "e", "p", "a", "l">>},
     tag |-> <<"N", "e", "p", "a", "l">>],
    [words |-> {<<"a", "f", "r", "i", "c", "a">>},
     tag |-> <<"A", "f", "r", "i", "c", "a">>],
    [words |-> {<<"a", "s", "i", "a">>},
     tag |-> <<"A", "s", "i", "a">>] >>

GenericTags == <<<<"h", "u", "m", "a", "n", "i", "t", "a", "r", "i", "a", "n", " ", "a", "i", "d">>,
                 <<"c", "o", "m", "m", "u", "n", "i", "t", "y", " ", "s", "u", "p", "p", "o", "r", "t">>>>

DefaultSummary ==
    <<"C", "a", "m", "p", "a", "i", "g", "n", " ", "p", "r", "o", "v", "i", "d", "e", "s", " ", "e", "s", "s", "e", "n", "t", "i", "a", "l", " ", "s", "u", "p", "p", "o", "r", "t", " ", "t", "o", " ", "c", "o", "m", "m", "u", "n", "i", "t", "i", "e", "s", " ", "i", "n", " ", "n", "e", "e", "d", ".">>

generateMockAnalysis_NoSlice(campaignDescription) ==
    LET lowerDescription == toLowerCase(campaignDescription)
        Matches(rule) == \E w \in rule.words : includes(lowerDescription, w)
        matched == SelectSeq(KeywordRules, Matches)
        found == [i \in 1..Len(matched) |-> matched[i].tag]
        tags == IF Len(found) < 2 THEN found \o GenericTags ELSE found
    IN  [tags |-> tags,
         summary |-> <<"T", "h", "i", "s", " ", "c", "a", "m", "p", "a", "i", "g", "n", " ", "p", "r", "o", "v", "i", "d", "e", "s", " ">>
                        \o join(tags, <<",", " ">>)
                        \o <<" ", "t", "o", " ", "c", "o", "m", "m", "u", "n", "i", "t", "i", "e", "s", " ", "i", "n", " ", "n", "e", "e", "d", ".">>]

generateMockAnalysis(campaignDescription) ==
    LET lowerDescription == toLowerCase(campaignDescription)
        Matches(rule) == \E w \in rule.words : includes(lowerDescription, w)
        matched == SelectSeq(KeywordRules, Matches)
        found == [i \in 1..Len(matched) |-> matched[i].tag]
        tags == IF Len(found) < 2 THEN found \o GenericTags ELSE found
    IN  [tags |-> slice(tags, 0, 5),
         summary |-> <<"T", "h", "i", "s", " ", "c", "a", "m", "p", "a", "i", "g", "n", " ", "p", "r", "o", "v", "i", "d", "e", "s", " ">>
                        \o join(tags, <<",", " ">>)
                        \o <<" ", "t", "o", " ", "c", "o", "m", "m", "u", "n", "i", "t", "i", "e", "s", " ", "i", "n", " ", "n", "e", "e", "d", ".">>]

\* JSON values as the parser hands them over
String(chars) == [type |-> "string", chars |-> chars, items |-> <<>>]

Number == [type |-> "number", chars |-> <<>>, items |-> <<>>]

Array(items) == [type |-> "array", chars |-> <<>>, items |-> items]

Undefined == [type |-> "undefined", chars |-> <<>>, items |-> <<>>]

\* the tags sanitizeAnalysis keeps: the strings that are not blank
ValidTags(analysis) ==
    LET tags == IF analysis.tags.type = "array" THEN analysis.tags.items ELSE <<>>
        Keep(tag) == tag.type = "string" /\ Len(trim(tag.chars)) > 0
    IN  SelectSeq(tags, Keep)

sanitizeAnalysis(analysis) ==
    LET kept == ValidTags(analysis)
        lowered == [i \in 1..Len(kept) |-> toLowerCase(trim(kept[i].chars))]
        tags == IF Len(lowered) < 2 THEN GenericTags ELSE lowered
        summary == IF analysis.summary.type = "string"
                   THEN trim(analysis.summary.chars) ELSE <<>>
    IN  [tags |-> slice(tags, 0, 5),
         summary |-> IF summary = <<>> THEN DefaultSummary ELSE summary]

\* the descriptions the service is asked about: 'Food' and ' food  ' differ
\* in case and whitespace only, 'fo od' holds no keyword, 'Clean<TAB>Water'
\* and 'clean  water' differ in case and in the kind and number of blanks,
\* and the last one holds all eight keywords
CampaignDescriptions == {
    <<"F", "o", "o", "d">>,
    <<" ", "f", "o", "o", "d", " ", " ">>,
    <<"f", "o", " ", "o", "d">>,
    <<"C", "l", "e", "a", "n", "\t", "W", "a", "t", "e", "r">>,
    <<"c", "l", "e", "a", "n", " ", " ", "w", "a", "t", "e", "r">>,
    <<"E", "m", "e", "r", "g", "e", "n", "c", "y", " ", "f", "o", "o", "d", " ", "w", "a", "t", "e", "r", " ", "s", "c", "h", "o", "o", "l", " ", "h", "e", "a", "l", "t", "h", " ", "n", "e", "p", "a", "l", " ", "a", "f", "r", "i", "c", "a", " ", "a", "s", "i", "a">> }

\* what comes back from the POST: a failure, or the analysis parsed from the
\* response text (by JSON.parse, or by parseFallbackResponse when that fails)
LlmResponses == {
    [kind |-> "error", tags |-> Undefined, summary |-> Undefined],
    [kind |-> "null", tags |-> Undefined, summary |-> Undefined],
    [kind |-> "analysis",
     tags |-> Array(<<String(<<" ", "F", "o", "o", "d", " ", "A", "i", "d", " ">>), String(<<" ">>), Number,
                      String(<<"W", "A", "T", "E", "R">>)>>),
     summary |-> String(<<" ", "F", "e", "e", "d", "s", ".", " ">>)],
    [kind |-> "analysis", tags |-> String(<<"f", "o", "o", "d">>), summary |-> Number],
    [kind |-> "analysis", tags |-> Array(<<String(<<"f", "o", "o", "d">>)>>),
     summary |-> String(<<>>)],
    [kind |-> "analysis",
     tags |-> Array(<<String(<<"a">>), String(<<"b">>), String(<<"c">>),
                      String(<<"d">>), String(<<"e">>), String(<<"f">>)>>),
     summary |-> String(<<"A", "i", "d", ".">>)] }

CampaignCacheHas(key) == \E e \in campaignCache : e.key = key

CampaignCacheGet(key) == (CHOOSE e \in campaignCache : e.key = key).analysis

CampaignCacheSet(cache, key, analysis) ==
    { e \in cache : e.key # key } \cup { [key |-> key, analysis |-> analysis] }

\* an entry of the log of returned calls: call numbers the calls in the
\* order in which they were made
Returned(call, campaignDescription, analysis, via, response) ==
    [call |-> call, description |-> campaignDescription, analysis |-> analysis,
     via |-> via, response |-> response]

\* analyzeCampaign, up to its return or to `await axios.post`
analyzeCampaignStart(campaignDescription) ==
    LET cacheKey == getCacheKey(campaignDescription)
        call == Len(analysed) + Len(analyses) + 1
        none == [kind |-> "none", tags |-> Undefined, summary |-> Undefined]
    IN
    /\ call <= MaxAnalyses
    /\ IF CampaignCacheHas(cacheKey)
       THEN /\ analysed' = Append(analysed,
                    Returned(call, campaignDescription, CampaignCacheGet(cacheKey),
                             "cache", none))
            /\ UNCHANGED <<campaignCache, analyses>>
       ELSE IF nodeEnv = "test"
       THEN LET mockAnalysis == generateMockAnalysis(campaignDescription) IN
            /\ campaignCache' = CampaignCacheSet(campaignCache, cacheKey, mockAnalysis)
            /\ analysed' = Append(analysed,
                    Returned(call, campaignDescription, mockAnalysis, "mock", none))
            /\ UNCHANGED analyses
       ELSE /\ analyses' = Append(analyses,
                    [call |-> call, description |-> campaignDescription,
                     cacheKey |-> cacheKey])
            /\ UNCHANGED <<campaignCache, analysed>>
    /\ UNCHANGED <<subVars, payVars>>

\* analyzeCampaign resumes after `await axios.post`: the parsed analysis is
\* sanitized and cached; a failed call, or an analysis that is null (reading
\* its tags throws), ends in the catch block with the keyword analysis
analyzeCampaignResume(i, response) ==
    LET c == analyses[i]
        analysis == IF response.kind = "analysis"
                    THEN sanitizeAnalysis(response)
                    ELSE generateMockAnalysis(c.description)
    IN
    /\ campaignCache' = CampaignCacheSet(campaignCache, c.cacheKey, analysis)
    /\ analysed' = Append(analysed,
            Returned(c.call, c.description, analysis,
                     IF response.kind = "analysis" THEN "llm" ELSE "mock", response))
    /\ analyses' = RemoveAt(analyses, i)
    /\ UNCHANGED <<subVars, payVars>>

----------------------------------------------------------------------------
\* PaymentsService.charge: the heuristics

LargeAmount_AtOrAbove(dto, cfg) == dto.amount >= cfg.amountThreshold

LargeAmount(dto, cfg) == dto.amount > cfg.amountThreshold

\* the filter of recentCharges: same email, and timestamp after oneHourAgo
InWindow(t, email, at) == t.email = email /\ t.timestamp > at - HourMs

recentCharges(email, at) ==
    LET Recent(t) == InWindow(t, email, at) IN SelectSeq(transactions, Recent)

VelocityTriggered_Above(count, cfg) == count > cfg.velocityThreshold

VelocityTriggered(count, cfg) == count >= cfg.velocityThreshold

GeoMismatch(dto) ==
    dto.ipCountry # "" /\ dto.billingCountry # "" /\ dto.ipCountry # dto.billingCountry

RussianIp_UnlessMismatch(dto) == dto.ipCountry = "RU" /\ ~GeoMismatch(dto)

\* chargeDto.ipCountry === 'RU'
RussianIp(dto) == dto.ipCountry = "RU"

\* the rules in the order the code applies them: <<reason, holds, increment>>
Rules(dto, cfg, count) == <<
    [reason |-> "large amount", holds |-> LargeAmount(dto, cfg), risk |-> cfg.amountRisk],
    [reason |-> "suspicious email domain",
     holds |-> isSuspiciousDomain(dto.email, cfg.suspiciousDomains), risk |-> cfg.domainRisk],
    [reason |-> "multiple charges in short time",
     holds |-> VelocityTriggered(count, cfg), risk |-> cfg.velocityRisk],
    [reason |-> "geolocation mismatch", holds |-> GeoMismatch(dto), risk |-> cfg.geoMismatchRisk],
    [reason |-> "Russian IP address", holds |-> RussianIp(dto), risk |-> RussianIpRisk] >>

Triggered(dto, cfg, count) ==
    LET Holds(r) == r.holds IN SelectSeq(Rules(dto, cfg, count), Holds)

RECURSIVE SumRisk(_)
SumRisk(rules) == IF rules = <<>> THEN 0 ELSE Head(rules).risk + SumRisk(Tail(rules))

RawRiskScore_Overwrite(dto, cfg, count) ==
    LET t == Triggered(dto, cfg, count) IN
    IF t = <<>> THEN BaseRisk ELSE BaseRisk + t[Len(t)].risk

\* riskScore before the cap
RawRiskScore(dto, cfg, count) == BaseRisk + SumRisk(Triggered(dto, cfg, count))

Cap_None(score) == score

\* Math.min(riskScore, 1)
Cap(score) == IF score < 1000 THEN score ELSE 1000

Accepted_AtThreshold(score) == score <= riskBlockThreshold

\* riskScore < this.config.fraud.riskBlockThreshold
Accepted(score) == score < riskBlockThreshold

\* Number(riskScore.toFixed(2)), in hundredths: the nearest hundredth, the
\* larger one on a tie
toFixed2(score) == (score + 5) \div 10

\* Array.prototype.sort without a comparator: by UTF-16 code units, so the
\* capital R comes first
ReasonOrder == <<"Russian IP address", "geolocation mismatch", "large amount",
                 "multiple charges in short time", "suspicious email domain">>

sort(reasons) ==
    LET In(r) == \E i \in 1..Len(reasons) : reasons[i] = r
    IN  SelectSeq(ReasonOrder, In)

getLLMCacheKey(provider, riskScore, reasons) ==
    [provider |-> provider, riskScore |-> toFixed2(riskScore), reasons |-> sort(reasons)]

CacheHas(key) == \E e \in llmCache : e.key = key

CacheGet(key) == (CHOOSE e \in llmCache : e.key = key).text

CacheSet(cache, key, text) ==
    { e \in cache : e.key # key } \cup { [key |-> key, text |-> text] }

Explanation(text, provider, reasons, riskScore) ==
    [text |-> text, provider |-> provider, reasons |-> reasons, riskScore |-> riskScore]

getLLMExplanation_NoFallback(c, outcome) ==
    IF outcome = "response"
    THEN Explanation("Generated.", "", <<>>, 0)
    ELSE Explanation("undefined", "", <<>>, 0)

\* getLLMExplanation: under NODE_ENV=test a sentence built from the provider,
\* the reasons and the rounded score; otherwise the sentence the service
\* answers with, or the fallback text when the call fails
getLLMExplanation(c, outcome) ==
    IF nodeEnv = "test"
    THEN Explanation("Payment. Risk score.", c.provider, c.explanationParts,
                     toFixed2(c.riskScore))
    ELSE IF outcome = "response"
         THEN Explanation("Generated.", "", <<>>, 0)
         ELSE Explanation("LLM explanation unavailable.", "", <<>>, 0)

\* timestamps are whole milliseconds, which toISOString and new Date keep
Transaction(c, explanation, at) ==
    [provider |-> c.provider, status |-> c.status, riskScore |-> toFixed2(c.riskScore),
     explanation |-> explanation, timestamp |-> at,
     amount |-> c.dto.amount, currency |-> c.dto.currency, email |-> c.dto.email]

\* the local variables of charge when it reaches the explanation cache
Locals(dto, draw) ==
    LET count == Len(recentCharges(dto.email, payNow))
        rules == Triggered(dto, fraudConfig, count)
        riskScore == Cap(RawRiskScore(dto, fraudConfig, count))
        accepted == Accepted(riskScore)
        provider == IF accepted THEN draw ELSE "null"
        pushed == [i \in 1..Len(rules) |-> rules[i].reason]
    IN  [dto |-> dto, recentCharges |-> count, pushed |-> pushed,
         rawScore |-> RawRiskScore(dto, fraudConfig, count),
         riskScore |-> riskScore,
         provider |-> provider,
         status |-> IF accepted THEN "success" ELSE "blocked",
         llmKey |-> getLLMCacheKey(provider, riskScore, pushed),
         explanationParts |-> sort(pushed)]

push_Front(array, item) == <<item>> \o array

\* Array.prototype.push
push(array, item) == Append(array, item)

\* charge, up to `await this.getLLMExplanation` (or to the end, on a cache hit)
charge(dto, draw) ==
    LET c == Locals(dto, draw) IN
    /\ Len(transactions) + Len(charges) < MaxLedger
    /\ scored' = c
    /\ IF CacheHas(c.llmKey)
       THEN /\ transactions' = push(transactions, Transaction(c, CacheGet(c.llmKey), payNow))
            /\ explained' = push(explained, [key |-> c.llmKey, called |-> FALSE])
            /\ UNCHANGED charges
       ELSE /\ charges' = Append(charges, c)
            /\ UNCHANGED <<transactions, explained>>
    /\ UNCHANGED <<fraudConfig, nodeEnv, payNow, llmCache, subVars, campaignVars>>

\* charge, after the explanation has come back
chargeResume(i, outcome) ==
    LET c == charges[i]
        explanation == getLLMExplanation(c, outcome)
    IN
    /\ llmCache' = CacheSet(llmCache, c.llmKey, explanation)
    /\ transactions' = push(transactions, Transaction(c, explanation, payNow))
    /\ explained' = push(explained, [key |-> c.llmKey, called |-> nodeEnv # "test"])
    /\ charges' = RemoveAt(charges, i)
    /\ UNCHANGED <<fraudConfig, nodeEnv, payNow, scored, subVars, campaignVars>>

\* Passage of time on the payments side: to exactly one hour from the start,
\* and to one millisecond later
PayClockTargets == {HourMs, HourMs + 1}

AdvancePayClock(t) ==
    /\ t > payNow
    /\ payNow' = t
    /\ UNCHANGED <<fraudConfig, nodeEnv, transactions, llmCache, charges, scored,
                   explained, subVars, campaignVars>>

NoCharge ==
    [dto |-> ChargeDto(0, "a@b.com", "", ""), recentCharges |-> 0, pushed |-> <<>>,
     rawScore |-> BaseRisk, riskScore |-> BaseRisk, provider |-> "null",
     status |-> "none", llmKey |-> getLLMCacheKey("null", BaseRisk, <<>>),
     explanationParts |-> <<>>]

\* the service after construction, with one of the given configurations loaded
PayStart(env) ==
    /\ fraudConfig \in FraudConfigs
    /\ nodeEnv = env
    /\ payNow = 0
    /\ transactions = <<>>
    /\ llmCache = {}
    /\ charges = <<>>
    /\ scored = NoCharge
    /\ explained = <<>>

PayNext ==
    \/ \E dto \in ChargeDtos, draw \in PaymentProviders : charge(dto, draw)
    \/ \E i \in 1..Len(charges), outcome \in HttpOutcomes : chargeResume(i, outcome)
    \/ \E t \in PayClockTargets : AdvancePayClock(t)

----------------------------------------------------------------------------

\* LLMService after construction
LLMServiceInit ==
    /\ campaignCache = {}
    /\ analyses = <<>>
    /\ analysed = <<>>

SubStart(days) ==
    /\ now \in days
    /\ heap = <<>>
    /\ subscriptions = <<>>
    /\ pendingCreates = <<>>
    /\ donationTransactions = <<>>
    /\ billingInterval = "unset"
    /\ ticks = <<>>
    /\ result = "ok"
    /\ LLMServiceInit

SubInit == SubStart(StartDays)

PayInit == PayStart("test")

Init == SubInit /\ PayInit

Next ==
    \/ \E dto \in CreateSubscriptionDtos : createSubscription(dto)
    \/ \E i \in 1..Len(pendingCreates) : createSubscriptionResume(i)
    \/ \E d \in Donors : cancelSubscription(d)
    \/ \E t \in ClockTargets : AdvanceClock(t)
    \/ triggerBillingProcessing
    \/ \E k \in 1..Len(ticks) : \E ref \in ticks[k].awaiting :
            processSubscriptionBillingResume(k, ref)
    \/ \E k \in 1..Len(ticks) : processDueSubscriptionsResume(k)

\* the subscription service under requests, manual billing runs and the clock
Spec == Init /\ [][Next]_vars

\* the same with the scheduler's timer and life cycle
SchedulerNext ==
    \/ Next
    \/ onModuleInit
    \/ TimerTick
    \/ onModuleDestroy

SchedulerSpec == Init /\ [][SchedulerNext]_vars

\* six donors, enough for a due list that needs a second batch
BatchDonors == <<"b1", "b2", "b3", "b4", "b5", "b6">>

\* six weekly subscriptions created on the start day, on the day they fall
\* due, under the scheduler the module started
BatchInit ==
    /\ now = calculateNextBillingDate(CHOOSE d \in StartDays : TRUE, "weekly")
    /\ heap = [i \in 1..Len(BatchDonors) |->
                 NewSubscription(Dto(BatchDonors[i], 1500, "weekly", "Test campaign"),
                                 analyzeCampaign("Test campaign"),
                                 CHOOSE d \in StartDays : TRUE)]
    /\ subscriptions = [i \in 1..Len(BatchDonors) |->
                          [key |-> BatchDonors[i], ref |-> i]]
    /\ pendingCreates = <<>>
    /\ donationTransactions = <<>>
    /\ billingInterval = "armed"
    /\ ticks = <<>>
    /\ result = "ok"
    /\ LLMServiceInit
    /\ PayInit

BatchNext ==
    \/ TimerTick
    \/ onModuleDestroy
    \/ \E k \in 1..Len(ticks) : \E ref \in ticks[k].awaiting :
            processSubscriptionBillingResume(k, ref)
    \/ \E k \in 1..Len(ticks) : processDueSubscriptionsResume(k)

\* the scheduler over a due list of two batches
BatchSpec == BatchInit /\ [][BatchNext]_vars

OverlapDonors == <<"o1", "o2">>

\* two weekly subscriptions on the day they fall due, the timer armed
OverlapInit ==
    /\ now = calculateNextBillingDate(CHOOSE d \in StartDays : TRUE, "weekly")
    /\ heap = [i \in 1..Len(OverlapDonors) |->
                 NewSubscription(Dto(OverlapDonors[i], 1500, "weekly", "Test campaign"),
                                 analyzeCampaign("Test campaign"),
                                 CHOOSE d \in StartDays : TRUE)]
    /\ subscriptions = [i \in 1..Len(OverlapDonors) |->
                          [key |-> OverlapDonors[i], ref |-> i]]
    /\ pendingCreates = <<>>
    /\ donationTransactions = <<>>
    /\ billingInterval = "armed"
    /\ ticks = <<>>
    /\ result = "ok"
    /\ LLMServiceInit
    /\ PayInit

OverlapNext ==
    \/ TimerTick
    \/ triggerBillingProcessingDuringRun
    \/ \E k \in 1..Len(ticks) : \E ref \in ticks[k].awaiting :
            processSubscriptionBillingResume(k, ref)
    \/ \E k \in 1..Len(ticks) : processDueSubscriptionsResume(k)

\* the scheduler when a manual trigger arrives during a run of the timer
OverlapSpec == OverlapInit /\ [][OverlapNext]_vars

\* the payments service under charge requests and the clock
PaySpec == Init /\ [][PayNext]_vars

\* the service running outside the test environment
ProdInit == SubInit /\ PayStart("production")

\* two requests, one accepted and one blocked
LlmChargeDtos == {
    ChargeDto(100000, "a@b.com", "US", "US"),
    ChargeDto(10000, "a@b.com", "RU", "RU") }

LlmNext ==
    \/ \E dto \in LlmChargeDtos, draw \in PaymentProviders : charge(dto, draw)
    \/ \E i \in 1..Len(charges), outcome \in HttpOutcomes : chargeResume(i, outcome)

\* the payments service with the text-generation service behind it
LlmSpec == ProdInit /\ [][LlmNext]_vars

\* the continuation of a charge whose explanation needed no call: it is
\* queued as soon as the charge suspends
ResumeWithoutCall ==
    /\ nodeEnv = "test"
    /\ \E i \in 1..Len(charges), outcome \in HttpOutcomes : chargeResume(i, outcome)

AnyEnvInit == SubInit /\ (PayStart("test") \/ PayStart("production"))

\* the payments service in either environment; the event loop runs the
\* continuations that are ready, while nothing makes a pending POST end
LlmLiveSpec == AnyEnvInit /\ [][LlmNext]_vars /\ WF_vars(ResumeWithoutCall)

AnalysisNext ==
    \/ \E d \in CampaignDescriptions : analyzeCampaignStart(d)
    \/ \E i \in 1..Len(analyses), response \in LlmResponses :
            analyzeCampaignResume(i, response)

\* the campaign analysis service in either environment
AnalysisSpec == AnyEnvInit /\ [][AnalysisNext]_vars

\* the subscription service behind its controller: the requests of Spec and
\* look-ups by donor id
ApiNext ==
    \/ Next
    \/ \E d \in Donors : getSubscription(d)

ApiSpec == Init /\ [][ApiNext]_vars

\* three contents of the configuration file: the increments the unit tests
\* assume, the increments configuration() defaults to, and a file with a
\* small geolocation increment
ScoreConfigs == {
    [amountThreshold |-> 100000, amountRisk |-> 500,
     suspiciousDomains |-> <<"test.com", ".ru">>, domainRisk |-> 400,
     velocityThreshold |-> 2, velocityRisk |-> 400, geoMismatchRisk |-> 400],
    [amountThreshold |-> 100000, amountRisk |-> 300,
     suspiciousDomains |-> <<"test.com", ".ru">>, domainRisk |-> 300,
     velocityThreshold |-> 2, velocityRisk |-> 250, geoMismatchRisk |-> 200],
    [amountThreshold |-> 100000, amountRisk |-> 500,
     suspiciousDomains |-> <<"test.com", ".ru">>, domainRisk |-> 300,
     velocityThreshold |-> 2, velocityRisk |-> 250, geoMismatchRisk |-> 100] }

\* requests that trigger the amount rule alone, the domain and geolocation
\* rules, and every combination of the two country rules
ScoreDtos == {
    ChargeDto(100001, "a@b.com", "US", "US"),
    ChargeDto(10000, "a@test.com", "US", "GB"),
    ChargeDto(10000, "a@b.com", "RU", "RU"),
    ChargeDto(10000, "a@b.com", "RU", "US"),
    ChargeDto(10000, "a@b.com", "US", "RU"),
    ChargeDto(10000, "a@b.com", "ru", "RU") }

ScoreInit ==
    /\ SubInit
    /\ fraudConfig \in ScoreConfigs
    /\ nodeEnv = "test"
    /\ payNow = 0
    /\ transactions = <<>>
    /\ llmCache = {}
    /\ charges = <<>>
    /\ scored = NoCharge
    /\ explained = <<>>

ScoreNext ==
    \/ \E dto \in ScoreDtos, draw \in PaymentProviders : charge(dto, draw)
    \/ \E i \in 1..Len(charges), outcome \in HttpOutcomes : chargeResume(i, outcome)

\* the payments service under each configuration
ScoreSpec == ScoreInit /\ [][ScoreNext]_vars

CalendarInit == SubStart(CalendarDays) /\ PayInit

CalendarNext ==
    \/ /\ heap = <<>> /\ pendingCreates = <<>>
       /\ \E dto \in CalendarDtos : createSubscription(dto)
    \/ \E i \in 1..Len(pendingCreates) : createSubscriptionResume(i)
    \/ \E t \in ClockTargets : AdvanceCalendar(t)
    \/ /\ \A r \in 1..Len(heap) :
             heap[r].successfulCharges + heap[r].failedCharges < MaxBillings
       /\ triggerBillingProcessing
    \/ \E k \in 1..Len(ticks) : \E ref \in ticks[k].awaiting :
            processSubscriptionBillingResume(k, ref)
    \/ \E k \in 1..Len(ticks) : processDueSubscriptionsResume(k)

\* one subscription followed over more than a year, from the ends of months
CalendarSpec == CalendarInit /\ [][CalendarNext]_vars

DomainNext ==
    \/ \E dto \in DomainChargeDtos, draw \in PaymentProviders : charge(dto, draw)
    \/ \E i \in 1..Len(charges), outcome \in HttpOutcomes : chargeResume(i, outcome)

\* the payments service under charges from a range of email addresses
DomainSpec == Init /\ [][DomainNext]_vars

----------------------------------------------------------------------------
\* Properties of the subscription store

StoredRefs == { subscriptions[i].ref : i \in 1..Len(subscriptions) }

Charged(sub) == sub.successfulCharges + sub.failedCharges > 0

\* C1: createSubscription with a donorId already in the store (active or
\* cancelled) fails with 'Subscription already exists', and leaves every
\* stored record, the store's size and the calls in flight as they were.
C1_DuplicateCreateRejected ==
    [][\A dto \in CreateSubscriptionDtos :
         (has(dto.donorId) /\ createSubscription(dto)) =>
            /\ result' = "Subscription already exists"
            /\ heap' = heap
            /\ subscriptions' = subscriptions
            /\ Len(subscriptions') = Len(subscriptions)
            /\ pendingCreates' = pendingCreates]_vars

\* a duplicate create has just been rejected against a store whose only
\* record is cancelled and has been billed
C1_Witness ==
    /\ result = "Subscription already exists"
    /\ Len(subscriptions) = 1
    /\ get(subscriptions[1].key).status = "cancelled"
    /\ Charged(get(subscriptions[1].key))

\* C2: under any interleaving of createSubscription requests, a record that
\* is stored for a donor id is never replaced by a create completing later
\* (so at most one create per donor id succeeds).
C2_StoredRecordNeverReplaced ==
    [][\A d \in Donors :
         has(d) => /\ d \in { subscriptions'[i].key : i \in 1..Len(subscriptions') }
                   /\ \A i \in 1..Len(subscriptions') :
                        subscriptions'[i].key = d => subscriptions'[i].ref = RefOf(d)]_vars

\* C3: getSubscriptionsDueForBilling never returns a cancelled subscription,
\* whatever its nextBillingAt.
C3_DueNeverCancelled ==
    \A i \in 1..Len(getSubscriptionsDueForBilling) :
        heap[getSubscriptionsDueForBilling[i]].status # "cancelled"

\* a stored subscription is cancelled and its nextBillingAt has passed
C3_Witness ==
    \E r \in StoredRefs : heap[r].status = "cancelled" /\ heap[r].nextBillingAt <= now

\* C4: getSubscriptionsDueForBilling returns exactly the stored subscriptions
\* that are active with nextBillingAt <= now, each once.
C4_DueExactlyActiveAndPassed ==
    LET due == getSubscriptionsDueForBilling IN
    /\ Range(due) = { r \in StoredRefs :
                        heap[r].status = "active" /\ ~(heap[r].nextBillingAt > now) }
    /\ Cardinality(Range(due)) = Len(due)

\* one active subscription is due exactly now, another active one is due later
C4_Witness ==
    /\ \E r \in StoredRefs : heap[r].status = "active" /\ heap[r].nextBillingAt = now
    /\ \E r \in StoredRefs : heap[r].status = "active" /\ heap[r].nextBillingAt > now
    /\ Len(getSubscriptionsDueForBilling) = 1

\* C5: cancelSubscription fails with 'not found' on an absent donor id and
\* with 'already cancelled' on a cancelled subscription, changing nothing;
\* on an active subscription it sets status to cancelled and changes no other
\* field of that record and no other record.
C5_CancelContract ==
    [][\A d \in Donors :
         cancelSubscription(d) =>
            /\ subscriptions' = subscriptions
            /\ Len(heap') = Len(heap)
            /\ ~has(d) => (result' = "Subscription not found" /\ heap' = heap)
            /\ (has(d) /\ get(d).status = "cancelled") =>
                  (result' = "Subscription already cancelled" /\ heap' = heap)
            /\ (has(d) /\ get(d).status = "active") =>
                  /\ result' = "ok"
                  /\ heap'[RefOf(d)].status = "cancelled"
                  /\ \A f \in DOMAIN heap[RefOf(d)] \ {"status"} :
                        heap'[RefOf(d)][f] = heap[RefOf(d)][f]
                  /\ \A r \in 1..Len(heap) : r # RefOf(d) => heap'[r] = heap[r]]_vars

\* a second cancel has just been rejected, for a subscription that had been
\* billed and rescheduled before it was cancelled, while another is stored
C5_Witness ==
    /\ result = "Subscription already cancelled"
    /\ Len(subscriptions) = 2
    /\ \E r \in StoredRefs :
         heap[r].status = "cancelled" /\ Charged(heap[r]) /\ heap[r].lastBilledAt # <<>>

IncrementOf(reason, cfg) ==
    CASE reason = "large amount" -> cfg.amountRisk
      [] reason = "suspicious email domain" -> cfg.domainRisk
      [] reason = "multiple charges in short time" -> cfg.velocityRisk
      [] reason = "geolocation mismatch" -> cfg.geoMismatchRisk
      [] reason = "Russian IP address" -> RussianIpRisk

RECURSIVE SumIncrements(_, _)
SumIncrements(reasons, cfg) ==
    IF reasons = <<>> THEN 0
    ELSE IncrementOf(Head(reasons), cfg) + SumIncrements(Tail(reasons), cfg)

ClampedScore(raw) == IF raw > 1000 THEN 1000 ELSE IF raw < 0 THEN 0 ELSE raw

Last(s) == s[Len(s)]

\* C6: a charge is accepted exactly when its clamped risk score is strictly
\* below the block threshold and is blocked otherwise; every accepted
\* transaction of the ledger has provider stripe or paypal and every blocked
\* one has provider null.
C6_DecisionAndProvider ==
    [][/\ \A dto \in ChargeDtos, draw \in PaymentProviders :
            (scored'.dto = dto /\ charge(dto, draw)) =>
               /\ scored'.status \in {"success", "blocked"}
               /\ scored'.status = "success" <=>
                     ClampedScore(scored'.rawScore) < riskBlockThreshold
       /\ \A i \in 1..Len(transactions') :
            /\ transactions'[i].status \in {"success", "blocked"}
            /\ transactions'[i].status = "success" =>
                  transactions'[i].provider \in {"stripe", "paypal"}
            /\ transactions'[i].status = "blocked" =>
                  transactions'[i].provider = "null"]_vars

\* the last charge scored exactly the block threshold and was blocked, and
\* the ledger holds an accepted and a blocked transaction
C6_Witness ==
    /\ scored.rawScore = riskBlockThreshold
    /\ scored.status = "blocked"
    /\ \E i, j \in 1..Len(transactions) :
         /\ transactions[i].status = "success"
         /\ transactions[i].provider = "paypal"
         /\ transactions[j].status = "blocked"
         /\ transactions[j].riskScore * 10 = riskBlockThreshold

RecordedInUnitInterval(tx, raw) ==
    /\ tx.riskScore >= 0
    /\ tx.riskScore <= 100
    /\ raw > 1000 => tx.riskScore = 100

\* C7: the risk score recorded in a transaction lies in [0,1] (0..100
\* hundredths), and when base plus triggered increments exceeds 1 the
\* recorded score is exactly 1.0.
C7_RecordedScoreClamped ==
    [][/\ \A dto \in ChargeDtos, draw \in PaymentProviders :
            (Len(transactions') > Len(transactions) /\ charge(dto, draw)) =>
               RecordedInUnitInterval(Last(transactions'), scored'.rawScore)
       /\ \A i \in 1..Len(charges), outcome \in HttpOutcomes :
            chargeResume(i, outcome) =>
               RecordedInUnitInterval(Last(transactions'), charges[i].rawScore)]_vars

\* a charge whose increments add up to more than 1 is in the ledger with the
\* score 1.0, both after a wait for the explanation and from a cache hit
C7_Witness ==
    /\ scored.rawScore > 1000
    /\ charges = <<>>
    /\ Len(transactions) >= 2
    /\ \A i \in 1..Len(transactions) :
         transactions[i].riskScore = 100 /\ transactions[i].email = scored.dto.email

\* C8: the large-amount rule triggers if and only if the amount is strictly
\* greater than amountThreshold: its reason and its increment are added for
\* an amount one cent above the threshold and not for one equal to it.
C8_LargeAmountStrict ==
    [][\A dto \in ChargeDtos, draw \in PaymentProviders :
         (scored'.dto = dto /\ charge(dto, draw)) =>
            /\ "large amount" \in Range(scored'.pushed) <=>
                  dto.amount > fraudConfig.amountThreshold
            /\ scored'.rawScore = BaseRisk + SumIncrements(scored'.pushed, fraudConfig)]_vars

\* a charge one cent above the threshold has just got the reason, after a
\* charge of exactly the threshold was recorded with the base score alone
C8_Witness ==
    /\ scored.dto.amount = fraudConfig.amountThreshold + 1
    /\ "large amount" \in Range(scored.pushed)
    /\ scored.rawScore = BaseRisk + fraudConfig.amountRisk
    /\ \E i \in 1..Len(transactions) :
         /\ transactions[i].amount = fraudConfig.amountThreshold
         /\ transactions[i].riskScore * 10 = BaseRisk

\* the ledger entries of an email stamped after one hour before `at`
EntriesAfter(email, at) ==
    { i \in 1..Len(transactions) :
        transactions[i].email = email /\ transactions[i].timestamp > at - HourMs }

\* C9: the velocity rule triggers if and only if the ledger entries of the
\* same email inside the one-hour window, accepted and blocked alike, number
\* at least velocityThreshold.
C9_VelocityAtThreshold ==
    [][\A dto \in ChargeDtos, draw \in PaymentProviders :
         (scored'.dto = dto /\ charge(dto, draw)) =>
            ("multiple charges in short time" \in Range(scored'.pushed) <=>
               Cardinality(EntriesAfter(dto.email, payNow)) >= fraudConfig.velocityThreshold)]_vars

\* the last charge found exactly velocityThreshold entries, an accepted and a
\* blocked one among them, and triggered the rule
C9_Witness ==
    /\ scored.status # "none"
    /\ scored.recentCharges = fraudConfig.velocityThreshold
    /\ "multiple charges in short time" \in Range(scored.pushed)
    /\ charges = <<>>
    /\ \E i, j \in 1..Len(transactions) :
         /\ transactions[i].email = scored.dto.email
         /\ transactions[j].email = scored.dto.email
         /\ transactions[i].status = "success"
         /\ transactions[j].status = "blocked"
         /\ i < fraudConfig.velocityThreshold + 1
         /\ j < fraudConfig.velocityThreshold + 1

\* C10: the velocity count for an email at time now is the number of ledger
\* entries with that email whose timestamp t satisfies now - 1 hour <= t <= now,
\* an entry stamped exactly one hour before now included.
C10_WindowInclusive ==
    [][\A dto \in ChargeDtos, draw \in PaymentProviders :
         (scored'.dto = dto /\ charge(dto, draw)) =>
            scored'.recentCharges =
               Cardinality({ i \in 1..Len(transactions) :
                               /\ transactions[i].email = dto.email
                               /\ payNow - HourMs <= transactions[i].timestamp
                               /\ transactions[i].timestamp <= payNow })]_vars

\* the labels of a domain name: its pieces between the dots
Labels(chars) == split(chars, ".")

IsSuffixSeq(suffix, seq) ==
    /\ Len(suffix) <= Len(seq)
    /\ \A i \in 1..Len(suffix) : suffix[i] = seq[Len(seq) - Len(suffix) + i]

\* the domain is the entry or a sub-domain of it; for an entry with a leading
\* dot, the domain lies under the name that follows the dot
Blacklisted(email, entry) ==
    LET domain == Labels(emailDomain(email))
        name == Labels(toLowerCase(Chars(entry)))
    IN  IF Head(name) = <<>>
        THEN IsSuffixSeq(Tail(name), domain) /\ Len(domain) > Len(Tail(name))
        ELSE IsSuffixSeq(name, domain)

\* C11: the suspicious-domain rule triggers if and only if the email's
\* domain, compared without regard to case, equals a blacklisted entry, is a
\* sub-domain of one, or ends with a leading-dot entry; a domain that has an
\* entry as a suffix without a dot boundary does not trigger it.
C11_SuspiciousDomainRule ==
    [][\A dto \in DomainChargeDtos, draw \in PaymentProviders :
         (scored'.dto = dto /\ charge(dto, draw)) =>
            ("suspicious email domain" \in Range(scored'.pushed) <=>
               \E k \in 1..Len(fraudConfig.suspiciousDomains) :
                  Blacklisted(dto.email, fraudConfig.suspiciousDomains[k]))]_vars

\* an upper-case address has just triggered the rule, after a sub-domain
\* address was recorded with the increment and mytest.com without it
C11_Witness ==
    /\ scored.dto.email = "a@TEST.COM"
    /\ "suspicious email domain" \in Range(scored.pushed)
    /\ \E i, j \in 1..Len(transactions) :
         /\ transactions[i].email = "a@sub.test.com"
         /\ transactions[i].riskScore * 10 = BaseRisk + fraudConfig.domainRisk
         /\ transactions[j].email = "a@mytest.com"
         /\ transactions[j].riskScore * 10 = BaseRisk

\* C12: any two transactions of the ledger with the same provider, the same
\* two-decimal score and the same set of reasons carry the same explanation.
C12_SameKeySameExplanation ==
    \A i, j \in 1..Len(transactions) :
        explained[i].key = explained[j].key =>
            transactions[i].explanation = transactions[j].explanation

\* the calls of the text-generation service made so far for a cache key:
\* those still awaited and those whose transaction is in the ledger
CollaboratorCalls(key) ==
    Cardinality({ i \in 1..Len(charges) : nodeEnv # "test" /\ charges[i].llmKey = key })
    + Cardinality({ i \in 1..Len(explained) : explained[i].called /\ explained[i].key = key })

\* C13: for each cache key the text-generation service is called at most
\* once in a run of the process.
C13_AtMostOneCallPerKey ==
    \A key \in { charges[i].llmKey : i \in 1..Len(charges) }
                 \cup { explained[i].key : i \in 1..Len(explained) } :
        CollaboratorCalls(key) <= 1

\* C14: when the call of the text-generation service fails or its answer is
\* malformed, the charge completes with the fallback explanation, the
\* fallback is stored under the cache key, and the transaction is appended
\* with the status and the score computed before the call.
C14_FallbackOnFailure ==
    [][\A i \in 1..Len(charges), outcome \in {"error", "malformed"} :
         (nodeEnv # "test" /\ chargeResume(i, outcome)) =>
            /\ Len(transactions') = Len(transactions) + 1
            /\ SubSeq(transactions', 1, Len(transactions)) = transactions
            /\ Last(transactions').explanation.text = "LLM explanation unavailable."
            /\ [key |-> charges[i].llmKey, text |-> Last(transactions').explanation]
                  \in llmCache'
            /\ Last(transactions').status = charges[i].status
            /\ Last(transactions').provider = charges[i].provider
            /\ Last(transactions').riskScore * 10 = charges[i].riskScore
            /\ Len(charges') = Len(charges) - 1]_vars

\* a blocked charge was recorded with the fallback text after a failed call,
\* and a later charge with the same key took the fallback from the cache
C14_Witness ==
    \E i, j \in 1..Len(transactions) :
        /\ i < j
        /\ explained[i].called
        /\ transactions[i].status = "blocked"
        /\ transactions[i].explanation.text = "LLM explanation unavailable."
        /\ explained[j].key = explained[i].key
        /\ ~explained[j].called
        /\ transactions[j].explanation = transactions[i].explanation
        /\ CacheHas(explained[i].key)
        /\ CacheGet(explained[i].key) = transactions[i].explanation

\* C15: every charge request eventually completes and appends its
\* transaction, even if the text-generation service never responds.
C15_EveryChargeCompletes == (charges # <<>>) ~> (charges = <<>>)

\* C16: the ledger is append-only and in completion order: a step leaves it
\* as it is or adds one entry at its end, stamped with the time at which the
\* charge completed; no entry is modified, removed or moved.
C16_LedgerAppendOnly ==
    [][\/ transactions' = transactions
       \/ /\ Len(transactions') = Len(transactions) + 1
          /\ SubSeq(transactions', 1, Len(transactions)) = transactions
          /\ Last(transactions').timestamp = payNow
          /\ \A i \in 1..Len(transactions) :
                transactions[i].timestamp <= Last(transactions').timestamp]_vars

\* two charges were made and the one started last completed first, an hour
\* before the other: its entry is the first of the ledger
C16_Witness ==
    /\ Len(transactions) = 2
    /\ charges = <<>>
    /\ transactions[1].amount = scored.dto.amount
    /\ transactions[2].amount # scored.dto.amount
    /\ transactions[1].timestamp = 0
    /\ transactions[2].timestamp = HourMs

----------------------------------------------------------------------------
\* Properties of the billing runs

\* the entries a step adds to the donation history
NewDonations == (Len(donationTransactions) + 1)..Len(donationTransactions')

FailedUnknown(tx, donorId) ==
    tx.donorId = donorId /\ tx.status = "failed" /\ tx.provider = "unknown"

\* C20: when billing a due subscription hits an internal fault (the billing
\* operation throws or rejects), the subscription's failedCharges increases
\* by exactly one and a DonationTransaction with status failed and provider
\* 'unknown' is appended to the donation history.
C20_FaultCountedAndRecorded ==
    [][/\ \A n \in NewDonations :
            donationTransactions'[n].errorMessage = "Internal processing error" =>
               /\ FailedUnknown(donationTransactions'[n], donationTransactions'[n].donorId)
               /\ \E r \in 1..Len(heap) :
                     /\ heap[r].donorId = donationTransactions'[n].donorId
                     /\ heap'[r].failedCharges = heap[r].failedCharges + 1
       /\ \A k \in 1..Len(ticks) : \A ref \in ticks[k].rejected :
            processSubscriptionBillingResume(k, ref) =>
               /\ heap'[ref].failedCharges = heap[ref].failedCharges + 1
               /\ \E n \in NewDonations :
                     FailedUnknown(donationTransactions'[n], heap[ref].donorId)]_vars

\* no stored subscription is active with its billing day reached
NoneDue ==
    \A i \in 1..Len(subscriptions) :
        ~(/\ heap[subscriptions[i].ref].status = "active"
          /\ heap[subscriptions[i].ref].nextBillingAt <= now)

\* C17: a scheduler tick or manual trigger that finds no due subscription
\* makes no billing call and no schedule update, appends nothing to the
\* donation history and leaves every subscription record unchanged.
C17_ZeroDueTickChangesNothing ==
    [][(NoneDue /\ (onModuleInit \/ TimerTick \/ triggerBillingProcessing)) =>
          /\ heap' = heap
          /\ subscriptions' = subscriptions
          /\ donationTransactions' = donationTransactions
          /\ ticks' = ticks]_vars

\* a due-check has just found nothing due while the timer is armed, with a
\* cancelled subscription past its billing day and an active one not yet at
\* its own
C17_Witness ==
    /\ result = "No subscriptions due for billing"
    /\ billingInterval = "armed"
    /\ ticks = <<>>
    /\ \E r1, r2 \in StoredRefs :
         /\ heap[r1].status = "cancelled" /\ heap[r1].nextBillingAt <= now
         /\ heap[r2].status = "active" /\ heap[r2].nextBillingAt > now

\* C18: when a billing run finishes, every subscription its due-query
\* returned has lastBilledAt set to the time it was processed in the run and
\* nextBillingAt set to that time plus its interval, whatever the outcome of
\* its billing attempt.
C18_RunReschedulesEveryDue ==
    [][\A k \in 1..Len(ticks) :
         (processDueSubscriptionsResume(k) /\ Len(ticks') < Len(ticks)) =>
            \A i \in 1..Len(ticks[k].due) :
               LET sub == heap'[ticks[k].due[i]] IN
               /\ sub.lastBilledAt # <<>>
               /\ ticks[k].at <= sub.lastBilledAt[1]
               /\ sub.lastBilledAt[1] <= now
               /\ sub.nextBillingAt =
                     calculateNextBillingDate(sub.lastBilledAt[1], sub.interval)]_vars

\* a run has finished in which the billing call of a subscription was
\* rejected: no donation was recorded, and the subscription was rescheduled
C18_Witness ==
    /\ ticks = <<>>
    /\ donationTransactions = <<>>
    /\ \E r \in StoredRefs :
         /\ heap[r].failedCharges = 1
         /\ heap[r].lastBilledAt = <<now>>
         /\ heap[r].nextBillingAt = now + 7

\* the days from t to the same date one interval later, by the rules of the
\* host's calendar: a week, the length of the month t lies in, or the length
\* of the year that starts at t (366 days when it holds a 29 February)
IntervalDays(t, interval) ==
    LET y == getFullYear(t) IN
    CASE interval = "weekly" -> 7
      [] interval = "monthly" -> DaysInMonth(y, getMonth(t))
      [] interval = "yearly" ->
            IF \/ IsLeap(y) /\ t <= MakeDay(y, 1, 29)
               \/ IsLeap(y + 1) /\ t > MakeDay(y, 1, 29)
            THEN 366 ELSE 365

\* C19: for every stored subscription, nextBillingAt equals lastBilledAt plus
\* the interval when lastBilledAt is set, and createdAt plus the interval
\* otherwise.
C19_NextIsLastPlusInterval ==
    \A r \in StoredRefs :
        LET sub == heap[r]
            from == IF sub.lastBilledAt # <<>> THEN sub.lastBilledAt[1] ELSE sub.createdAt
        IN  sub.nextBillingAt = from + IntervalDays(from, sub.interval)

\* C21: a fault while billing one subscription never aborts the batch or the
\* tick: no billing of a member rejects into the run, and when the run ends
\* every subscription of its due list, in every batch, has been billed
\* (one more charge counted) and rescheduled past the day of the run.
C21_FaultNeverAbortsTick ==
    [][/\ \A k \in 1..Len(ticks') : ticks'[k].failed = {}
       /\ \A k \in 1..Len(ticks) :
            (processDueSubscriptionsResume(k) /\ Len(ticks') < Len(ticks)) =>
                \A i \in 1..Len(ticks[k].due) :
                    LET sub == heap'[ticks[k].due[i]] IN
                    /\ Charged(sub)
                    /\ sub.lastBilledAt = <<now>>
                    /\ sub.nextBillingAt > now]_vars

\* a run over two batches has ended with every subscription rescheduled,
\* one billing of the first batch having thrown inside processBilling and
\* another having rejected
C21_Witness ==
    /\ ticks = <<>>
    /\ Len(subscriptions) > concurrencyLimit
    /\ \A r \in StoredRefs : heap[r].lastBilledAt = <<now>> /\ Charged(heap[r])
    /\ \E i \in 1..Len(donationTransactions) :
            FailedUnknown(donationTransactions[i], heap[1].donorId)
    /\ Len(donationTransactions) = Len(subscriptions) - 1
    /\ heap[Len(heap)].successfulCharges = 1

\* C22: once started, the timer stays armed after every tick, also after
\* ticks whose billings fail, fault or reject: a tick leaves it armed, and
\* the only step that takes it out of the armed state is the explicit stop.
C22_OnlyStopDisarms ==
    [][/\ TimerTick => billingInterval' = "armed"
       /\ (billingInterval = "armed" /\ billingInterval' # "armed") =>
              onModuleDestroy]_vars

\* the timer is armed after a run in which one billing threw inside
\* processBilling and another rejected
C22_Witness ==
    /\ billingInterval = "armed"
    /\ ticks = <<>>
    /\ \E i \in 1..Len(donationTransactions) :
            donationTransactions[i].errorMessage = "Internal processing error"
    /\ \E r \in StoredRefs :
            /\ heap[r].failedCharges = 1
            /\ \A i \in 1..Len(donationTransactions) :
                   donationTransactions[i].donorId # heap[r].donorId

\* C23: starting the scheduler moves it from stopped to running: the status
\* goes from not running to running with the 60000 ms period, and the same
\* step runs one due-check: with nothing due it logs so and changes nothing,
\* otherwise a run over the due list begins with the first batch billed.
C23_StartArmsAndChecksAtOnce ==
    [][(billingInterval = "unset" /\ onModuleInit) =>
         LET due == getSubscriptionsDueForBilling IN
         /\ ~getSchedulerStatus.isRunning
         /\ getSchedulerStatus'.isRunning
         /\ getSchedulerStatus'.intervalMs = 60000
         /\ getSchedulerStatus'.nextRun # <<>>
         /\ IF due = <<>>
            THEN /\ result' = "No subscriptions due for billing"
                 /\ UNCHANGED <<heap, donationTransactions, ticks>>
            ELSE /\ Len(ticks') = Len(ticks) + 1
                 /\ Last(ticks').due = due
                 /\ \A ref \in Range(BatchAt(due, 1)) :
                        /\ ref \in Last(ticks').awaiting
                        /\ Charged(heap'[ref]) \/ ref \in Last(ticks').rejected]_vars

\* the scheduler is running and a billing run is in flight whose first batch
\* has been billed and awaits its reschedules
C23_Witness ==
    /\ getSchedulerStatus.isRunning
    /\ Len(ticks) = 1
    /\ ticks[1].awaiting # {}
    /\ \A ref \in ticks[1].awaiting : Charged(heap[ref]) \/ ref \in ticks[1].rejected

\* C24: stopping is idempotent: a stop in the running state disarms the
\* timer, a stop in the stopped state changes nothing, after any stop the
\* status reports isRunning false and no nextRun, and in every state
\* isRunning is true exactly when a timer is armed.
C24_StopIdempotent ==
    [][/\ getSchedulerStatus'.isRunning <=> billingInterval' = "armed"
       /\ onModuleDestroy =>
            /\ billingInterval = "armed" => billingInterval' = "null"
            /\ billingInterval # "armed" =>
                   UNCHANGED <<now, storeVars, billingVars, payVars, campaignVars>>
            /\ ~getSchedulerStatus'.isRunning
            /\ getSchedulerStatus'.nextRun = <<>>]_vars

\* the scheduler was started and then stopped, and reports that it is not
\* running
C24_Witness ==
    /\ billingInterval = "null"
    /\ ~getSchedulerStatus.isRunning
    /\ getSchedulerStatus.nextRun = <<>>
    /\ result = "ok"

\* C25: stopping the scheduler while a run is in flight does not cancel the
\* run: the stop leaves the run, the records and the history as they are,
\* the stopped run goes on to its later batches, and when it ends every
\* subscription it selected has been billed and rescheduled; a timer tick
\* fires only while the timer is armed.
C25_StopLeavesRunInFlight ==
    [][/\ onModuleDestroy => UNCHANGED <<heap, subscriptions, donationTransactions, ticks>>
       /\ TimerTick => billingInterval = "armed"
       /\ \A k \in 1..Len(ticks) :
            (billingInterval = "null" /\ processDueSubscriptionsResume(k)) =>
                IF ticks[k].pos + concurrencyLimit <= Len(ticks[k].due)
                THEN /\ Len(ticks') = Len(ticks)
                     /\ Last(ticks').pos = ticks[k].pos + concurrencyLimit
                     /\ Last(ticks').awaiting # {}
                ELSE /\ Len(ticks') < Len(ticks)
                     /\ \A i \in 1..Len(ticks[k].due) :
                            LET sub == heap'[ticks[k].due[i]] IN
                            /\ Charged(sub)
                            /\ sub.lastBilledAt = <<ticks[k].at>>
                            /\ sub.nextBillingAt > ticks[k].at]_vars

\* the scheduler was stopped during a run, and the run has gone on to its
\* second batch and billed and rescheduled every subscription it selected
C25_Witness ==
    /\ billingInterval = "null"
    /\ Len(ticks) = 1
    /\ ticks[1].pos > 1
    /\ ticks[1].awaiting = {}
    /\ \A i \in 1..Len(ticks[1].due) :
           /\ Charged(heap[ticks[1].due[i]])
           /\ heap[ticks[1].due[i]].lastBilledAt = <<ticks[1].at>>

\* C26: a manual trigger has exactly the effect of one timer tick run from
\* the same state: while the timer is armed, a step is one that the manual
\* trigger can take exactly when it is one that the timer tick can take
\* (the same due-query, the same batch, the same changes to the records and
\* the donation history).
C26_TriggerIsTick ==
    [][billingInterval = "armed" =>
          (triggerBillingProcessing <=> TimerTick)]_vars

\* under an armed timer a run over one due subscription has billed it and
\* recorded the donation, and awaits its reschedule
C26_Witness ==
    /\ billingInterval = "armed"
    /\ Len(ticks) = 1
    /\ Len(ticks[1].due) = 1
    /\ ticks[1].awaiting = Range(ticks[1].due)
    /\ Len(donationTransactions) = 1
    /\ donationTransactions[1].donorId = heap[ticks[1].due[1]].donorId
    /\ heap[ticks[1].due[1]].lastBilledAt = <<>>

\* the sum of a field over a set of stored objects
RECURSIVE SumOver(_, _)
SumOver(refs, field) ==
    IF refs = {} THEN 0
    ELSE LET r == CHOOSE x \in refs : TRUE IN
         heap[r][field] + SumOver(refs \ {r}, field)

\* C27: in every reachable state getStatistics reports a total that is the
\* number of active plus the number of cancelled subscriptions, an amount
\* total that sums the active subscriptions only, charge totals that are the
\* sums of the success and failure counters over all stored subscriptions,
\* and a successRate that is the literal 0% exactly when no charge has
\* occurred.
C27_StatisticsConsistent ==
    LET st == getStatistics
        active == { r \in StoredRefs : heap[r].status = "active" }
        cancelled == { r \in StoredRefs : heap[r].status = "cancelled" }
    IN
    /\ st.activeSubscriptions = Cardinality(active)
    /\ st.cancelledSubscriptions = Cardinality(cancelled)
    /\ st.totalSubscriptions = st.activeSubscriptions + st.cancelledSubscriptions
    /\ st.totalMonthlyAmount = SumOver(active, "amount")
    /\ st.totalSuccessfulCharges = SumOver(StoredRefs, "successfulCharges")
    /\ st.totalFailedCharges = SumOver(StoredRefs, "failedCharges")
    /\ (st.successRate = <<"0", "%">>) <=>
          (st.totalSuccessfulCharges + st.totalFailedCharges = 0)

\* one active subscription whose only charge failed and one cancelled
\* subscription: the rate reads 0.00% and the amount leaves the cancelled
\* one out
C27_Witness ==
    /\ getStatistics.activeSubscriptions = 1
    /\ getStatistics.cancelledSubscriptions = 1
    /\ getStatistics.totalSuccessfulCharges = 0
    /\ getStatistics.totalFailedCharges = 1
    /\ getStatistics.successRate = <<"0", ".", "0", "0", "%">>
    /\ getStatistics.totalMonthlyAmount < SumOver(StoredRefs, "amount")

\* the words of a description: its maximal runs of non-blank characters,
\* in lower case
RECURSIVE Words(_)
Words(chars) ==
    LET rest == trimStart(chars)
        IsWordEnd(k) == k = Len(rest) \/ IsSpace(rest[k + 1])
        n == CHOOSE k \in 1..Len(rest) :
                IsWordEnd(k) /\ \A j \in 1..k : ~IsSpace(rest[j])
    IN  IF rest = <<>> THEN <<>>
        ELSE <<toLowerCase(SubSeq(rest, 1, n))>> \o Words(SubSeq(rest, n + 1, Len(rest)))

\* C28: analyzeCampaign returns the same tags and summary for any two
\* campaign descriptions that are equal after case-folding, collapsing
\* whitespace runs and trimming, and the later of the two calls is answered
\* from the cache.
C28_EqualDescriptionsSameAnalysis ==
    \A i, j \in 1..Len(analysed) :
        (/\ Words(analysed[i].description) = Words(analysed[j].description)
         /\ analysed[i].call < analysed[j].call) =>
            /\ analysed[i].analysis = analysed[j].analysis
            /\ analysed[j].via = "cache"

\* the number of tags an analysis was built from: the keyword tests that
\* matched, or the usable tags of the collaborator's answer
FoundTags(e) ==
    IF e.via = "llm" THEN Len(ValidTags(e.response))
    ELSE Cardinality({ k \in 1..Len(KeywordRules) :
            \E w \in KeywordRules[k].words : includes(toLowerCase(e.description), w) })

\* C29: every analysis returned by analyzeCampaign, built by the keyword
\* fallback or sanitized from the collaborator's output (or served from the
\* cache), has at least two and at most five tags, none of them empty; when
\* fewer than two tags were found, the generic tags 'humanitarian aid' and
\* 'community support' are among them.
C29_TagsBetweenTwoAndFive ==
    \A i \in 1..Len(analysed) :
        LET e == analysed[i] IN
        /\ Len(e.analysis.tags) >= 2
        /\ Len(e.analysis.tags) <= 5
        /\ \A t \in 1..Len(e.analysis.tags) : e.analysis.tags[t] # <<>>
        /\ (e.via # "cache" /\ FoundTags(e) < 2) =>
               \A g \in 1..Len(GenericTags) : GenericTags[g] \in Range(e.analysis.tags)

\* two analyses have been returned: one sanitized from an answer with six
\* tags and cut to five, one built from a description with a single keyword
\* and filled up with the generic tags
C29_Witness ==
    \E i, j \in 1..Len(analysed) :
        /\ analysed[i].via = "llm"
        /\ Len(ValidTags(analysed[i].response)) > 5
        /\ Len(analysed[i].analysis.tags) = 5
        /\ analysed[j].via = "mock"
        /\ FoundTags(analysed[j]) = 1
        /\ Len(analysed[j].analysis.tags) = 3

\* C30: the donation history is observed in completion order:
\* getDonationHistory lists the DonationTransactions in the order in which
\* their billing operations completed (the order in which they were
\* appended).
C30_HistoryInCompletionOrder ==
    getDonationHistory = donationTransactions

\* what the caller receives for an internal error, such as the Error that
\* calculateNextBillingDate throws
InternalErrorReport == Reported("Invalid interval")

\* a response that names a condition of the caller's request
NamedCondition(report) ==
    /\ report.statusCode \in {400, 404}
    /\ report # InternalErrorReport

\* C31: the four state-conflict conditions (duplicate creation, cancel of a
\* nonexistent subscription, cancel of an already-cancelled subscription,
\* look-up of an unknown donor id) are each reported to the caller as a named
\* condition, different from the report of an internal error, and the
\* conditions an operation can report differ from one another.
C31_ConflictsReportedDistinctly ==
    [][/\ \A dto \in CreateSubscriptionDtos :
            (has(dto.donorId) /\ createSubscription(dto)) =>
                NamedCondition(Reported(result'))
       /\ \A d \in Donors :
            (cancelSubscription(d) /\ result' # "ok") =>
                /\ NamedCondition(Reported(result'))
                /\ Reported(result') # Reported("Subscription already exists")
                /\ ~has(d) <=> Reported(result') = Reported("Subscription not found")
       /\ \A d \in Donors :
            (~has(d) /\ getSubscription(d)) =>
                NamedCondition(Reported(result'))]_vars

\* the evaluation charge would make of a request in the present state
Evaluation(dto) == Locals(dto, "stripe")

\* C32 as stated: the score is monotonically non-decreasing in the number
\* of triggered heuristics: of any two charge evaluations under one
\* configuration, the one that triggers more heuristics has a score greater
\* than or equal to the other's.
C32_MoreHeuristicsHigherScore ==
    \A dto \in ScoreDtos :
        /\ Len(scored.pushed) < Len(Evaluation(dto).pushed) =>
               scored.riskScore <= Evaluation(dto).riskScore
        /\ Len(Evaluation(dto).pushed) < Len(scored.pushed) =>
               Evaluation(dto).riskScore <= scored.riskScore

\* C32, amended: of any two charge evaluations under one configuration, one
\* that triggers every heuristic the other triggers (and possibly more) has
\* a score greater than or equal to the other's.
C32_MoreHeuristicsHigherScore_Amended ==
    \A dto \in ScoreDtos :
        /\ Range(scored.pushed) \subseteq Range(Evaluation(dto).pushed) =>
               scored.riskScore <= Evaluation(dto).riskScore
        /\ Range(Evaluation(dto).pushed) \subseteq Range(scored.pushed) =>
               Evaluation(dto).riskScore <= scored.riskScore

\* the charge evaluated last triggered the geolocation rule alone, and the
\* same request would now trigger the velocity rule as well and score higher
C32_Witness ==
    /\ scored.pushed = <<"geolocation mismatch">>
    /\ Evaluation(scored.dto).pushed =
           <<"multiple charges in short time", "geolocation mismatch">>
    /\ scored.riskScore < Evaluation(scored.dto).riskScore

Attempts(h, ref) == h[ref].successfulCharges + h[ref].failedCharges

\* C33: within one run of the due-check at most 5 billing operations are in
\* flight at any time, and no member of a later batch starts before every
\* member of the preceding batch has finished billing and been rescheduled.
\* A run is a record of ticks; the run that starts a batch in a step is the
\* last record afterwards, and the members it bills are the donors of the
\* transactions the step appends.
C33_BatchesOfFiveInSequence ==
    [][/\ \A k \in 1..Len(ticks') :
             Cardinality(ticks'[k].awaiting) <= concurrencyLimit
       /\ Len(donationTransactions') > Len(donationTransactions) =>
             LET run == ticks'[Len(ticks')] IN
             \* only members of the run's current batch are billed
             /\ \A n \in (Len(donationTransactions) + 1)..Len(donationTransactions') :
                   \E ref \in Range(BatchAt(run.due, run.pos)) :
                       heap[ref].donorId = donationTransactions'[n].donorId
             \* and the batches before it have finished
             /\ run.pos > 1 =>
                   \E k \in 1..Len(ticks) :
                       /\ ticks[k].due = run.due
                       /\ ticks[k].at = run.at
                       /\ ticks[k].pos + concurrencyLimit = run.pos
                       /\ ticks[k].awaiting = {}
                       /\ \A j \in 1..(run.pos - 1) :
                             /\ Attempts(heap, run.due[j]) >= 1
                             /\ heap[run.due[j]].nextBillingAt > run.at]_vars

\* the second batch of a run is in flight: its one member has been billed
\* and is not yet rescheduled, the five of the first batch all are
C33_Witness ==
    \E k \in 1..Len(ticks) :
        /\ ticks[k].pos = concurrencyLimit + 1
        /\ Cardinality(ticks[k].awaiting) = 1
        /\ \A j \in 1..concurrencyLimit :
              /\ Attempts(heap, ticks[k].due[j]) = 1
              /\ heap[ticks[k].due[j]].nextBillingAt > ticks[k].at
        /\ \A ref \in ticks[k].awaiting :
              /\ Attempts(heap, ref) = 1
              /\ heap[ref].nextBillingAt <= ticks[k].at

\* the reasons in the order of the rules
RuleOrder == <<"large amount", "suspicious email domain",
               "multiple charges in short time", "geolocation mismatch",
               "Russian IP address">>

\* C34: the reasons list of a charge, as handed to the explanation
\* generator, holds the triggered reasons in the fixed rule order large
\* amount, suspicious email domain, velocity, geolocation mismatch, high-risk
\* country; computing the cache fingerprint does not reorder it.
C34_ReasonsInRuleOrder ==
    \A i \in 1..Len(charges) :
        charges[i].explanationParts =
            SelectSeq(RuleOrder, LAMBDA r : r \in Range(charges[i].pushed))

\* the velocity rule was applied to evaluation c if the ledger, as it is
\* now, calls for it
VelocityApplied(c) ==
    Len(recentCharges(c.dto.email, payNow)) >= fraudConfig.velocityThreshold =>
        "multiple charges in short time" \in Range(c.pushed)

\* C36: for every transaction of the ledger: if, at the moment it is
\* appended, the ledger already holds at least velocityThreshold entries with
\* the same email stamped within the preceding hour, the velocity rule was
\* applied to it, also when several charges for that email are in flight.
C36_VelocityAppliedAtAppend ==
    [][Len(transactions') = Len(transactions) + 1 =>
          /\ charges' = charges => VelocityApplied(scored')
          /\ \A i \in 1..Len(charges) :
                charges' = RemoveAt(charges, i) => VelocityApplied(charges[i])]_vars

\* the DonationTransactions stored for a donor
TransactionsOf(donorId) ==
    SelectSeq(donationTransactions, LAMBDA t : t.donorId = donorId)

\* C37: a subscription is billed at most once per due period: between two
\* consecutive updates of its nextBillingAt at most one DonationTransaction
\* is appended for it and its counters grow by at most one in total, even
\* when a manual trigger overlaps a timer tick. Stated for the first period
\* of each subscription, which lasts until its schedule is first updated.
C37_BilledOncePerPeriod ==
    \A i \in 1..Len(subscriptions) :
        LET sub == heap[subscriptions[i].ref] IN
        sub.lastBilledAt = <<>> =>
            /\ Len(TransactionsOf(sub.donorId)) <= 1
            /\ sub.successfulCharges + sub.failedCharges <= 1

\* C38: after cancelSubscription has completed for a donor, no
\* DonationTransaction is appended for that donor and its counters,
\* lastBilledAt and nextBillingAt no longer change, even if a tick that
\* selected it before the cancellation is still in flight.
C38_NoBillingAfterCancel ==
    [][\A i \in 1..Len(subscriptions) :
         LET ref == subscriptions[i].ref
             sub == heap[ref]
         IN  sub.status = "cancelled" =>
                /\ heap'[ref].successfulCharges = sub.successfulCharges
                /\ heap'[ref].failedCharges = sub.failedCharges
                /\ heap'[ref].lastBilledAt = sub.lastBilledAt
                /\ heap'[ref].nextBillingAt = sub.nextBillingAt
                /\ SelectSeq(donationTransactions', LAMBDA t : t.donorId = sub.donorId)
                      = TransactionsOf(sub.donorId)]_vars

\* the DonationTransactions of a donor that have the given status
CountOf(donorId, status) ==
    Len(SelectSeq(donationTransactions,
                  LAMBDA t : t.donorId = donorId /\ t.status = status))

\* C39: in every reachable state and for every subscription,
\* successfulCharges equals the number of DonationTransactions of that donor
\* with status success and failedCharges the number with status failed: each
\* billing attempt, a faulted one included, changes exactly one counter by
\* one and appends exactly one record.
C39_CountersMatchHistory ==
    \A i \in 1..Len(subscriptions) :
        LET sub == heap[subscriptions[i].ref] IN
        /\ sub.successfulCharges = CountOf(sub.donorId, "success")
        /\ sub.failedCharges = CountOf(sub.donorId, "failed")

\* C40: a subscription's status only ever changes from active to cancelled:
\* once a donor's subscription is cancelled, the record stored for that
\* donor id is never active again, under any interleaving of create, cancel,
\* billing and schedule-update operations.
C40_CancelledStaysCancelled ==
    [][\A d \in Donors :
         (has(d) /\ heap[RefOf(d)].status = "cancelled") =>
            \E i \in 1..Len(subscriptions') :
                /\ subscriptions'[i].key = d
                /\ heap'[subscriptions'[i].ref].status = "cancelled"]_vars
====
